---- MODULE Spec2Model ----
(***************************************************************************)
(* GeoFamily: geofence / low-battery transition detection, cooldown gate   *)
(* and notification fan-out, as run by the Cloud Functions triggers        *)
(* (functions/src/index.ts) and by the map screen of the subject's own     *)
(* device (app/(tabs)/index.tsx, utils/notifications.ts).                  *)
(*                                                                         *)
(* One tracked subject (Subject) is followed.  Coordinates are points of a *)
(* small local grid; at that scale the haversine distance is the plane     *)
(* distance of the grid, which getDistance returns rounded up to a whole   *)
(* unit, so that "distance <= radius" is exact for whole radii.  The clock *)
(* counts milliseconds and advances one cooldown period at a time.         *)
(***************************************************************************)
EXTENDS Integers, FiniteSets, Sequences, TLC

\* ---------------------------------------------------------------- bounds
MaxLat == 3
MaxTicks == 2
MaxLog == 2
MaxInv == 2
MaxMoves == 3

\* ------------------------------------------------------ program constants
LOW_BATTERY_THRESHOLD == 20
NOTIFICATION_COOLDOWN_MS_lowBattery == 15 * 60 * 1000
NOTIFICATION_COOLDOWN_MS_geofence == 5 * 60 * 1000
BATTERY_COOLDOWN_PERIOD == 15 * 60 * 1000
GEOFENCE_COOLDOWN_PERIOD == 5 * 60 * 1000

\* the first value of the clock (Date.now() is never 0)
StartMs == 5 * 60 * 1000

\* ------------------------------------------------------------ the domain
Users == {"A", "B", "C"}
Subject == "A"
Families == {"F1", "F2"}
NoFamily == "none"
FenceIds == {"Home", "Work", "Shed"}
NoFence == "none"
Slots == 1..MaxInv

\* the device moves along the meridian of the fences
Coordinates == {[latitude |-> la, longitude |-> 1] : la \in 0..MaxLat}
NoLoc == [latitude |-> -1, longitude |-> -1]
NoBat == -1
NoTime == -1

\* Expo reports the battery as a fraction; the readings are given in 1/1000
BatteryReadings == {150, 204, 205}

\* The geofences collection: Home and Work belong to family F1, overlap
\* at latitude 2, and have points exactly on their boundary; Shed, of the
\* same family, was stored without a centre.
GeofenceDocs ==
    [f \in FenceIds |->
        IF f = "Home"
        THEN [familyId |-> "F1", center |-> [latitude |-> 1, longitude |-> 1], radius |-> 1]
        ELSE IF f = "Work"
        THEN [familyId |-> "F1", center |-> [latitude |-> 3, longitude |-> 1], radius |-> 1]
        ELSE [familyId |-> "F1", center |-> NoLoc, radius |-> 1]]

\* The users collection: B is a member of F1 and C of F2 throughout; the
\* subject's familyId is the variable familyOf[Subject].
InitFamilyOf == [u \in Users |-> IF u = "B" THEN "F1" ELSE IF u = "C" THEN "F2" ELSE NoFamily]

PushOutcomes == {"delivered", "invalidToken", "failed"}
GeoTypes == {"geofence_entry", "geofence_exit"}

VARIABLES
    now,                    \* Date.now() / serverTimestamp()
    moves,                  \* how many times the subject's familyId has been changed
    familyOf,               \* users/<uid>.familyId
    fcmToken,               \* the users whose profile holds an fcmToken
    liveLoc,                \* liveData/<Subject>/currentLocation
    liveBat,                \* liveData/<Subject>/batteryLevel
    sosActive,              \* liveData/<Subject>/sosActive
    log,                    \* the notifications collection
    srvInv,                 \* the Cloud Functions invocations in flight
    currentUserProfile,     \* MapScreen state
    geofences,              \* MapScreen state: ids of the fences of the last snapshot
    effect3,                \* what the listeners set up by Effect 3 closed over
    rtdbListeners,          \* MapScreen ref: member ids with a liveData listener
    liveSubs,               \* per member, the onValue subscriptions of the screen not yet cancelled
    livePending,            \* an onValue callback of the subject's liveData is due
    batteryFetch,           \* the battery effect's getBatteryLevelAsync is outstanding
    previousUserLocation,   \* MapScreen ref
    lastLowBatteryAlertSent, \* MapScreen ref
    geofenceCooldowns,      \* MapScreen ref: fence id -> time
    clientInFlight,         \* the createNotificationsForFamily calls of the screen not yet settled
    editor,                 \* GeofenceEditScreen state and the profile it reads
    geofenceCollection,     \* the geofences collection as the edit screen reads and writes it
    authCtx,                \* AuthProvider state, with the users documents its listener reads
    signupScreen,           \* SignupScreen state
    userSettings,           \* users/<Subject>.settings and the copies of it the screens hold
    familyScreen,           \* FamilyScreen state and listeners
    familyStore,            \* the users and families documents the family screen reads and writes
    lastEval                \* record of the most recent evaluation (history variable)

durable == <<familyOf, fcmToken, liveLoc, liveBat, sosActive, log>>
client == <<currentUserProfile, geofences, effect3, rtdbListeners, liveSubs, livePending, batteryFetch,
            previousUserLocation, lastLowBatteryAlertSent, geofenceCooldowns,
            clientInFlight>>
geofenceEdit == <<editor, geofenceCollection>>
familyTab == <<familyScreen, familyStore>>
vars == <<now, moves, durable, srvInv, client, geofenceEdit, authCtx, signupScreen, userSettings,
          familyTab, lastEval>>

\* settings.tsx reads both flags with ?? true: a document without settings
\* counts as both switched on.  doc is the Firestore field, profile the copy
\* in the currentUserProfile state of MapScreen.
\* explore.tsx refs profileListener, familyDocListener, firestoreListener:
\* current is what the ref holds (null, or the unsubscribe function of a
\* listener for that family), live whether that listener is still subscribed
NullRef == [current |-> NoFamily, live |-> FALSE]
\* FamilyScreen before it is mounted.  listening: the profile listener is
\* subscribed; pending: a snapshot of the user document is due
NullFamilyProfile == [null |-> TRUE, familyId |-> NoFamily]
FamilyScreenIdle ==
    [mounted |-> FALSE, listening |-> FALSE, pending |-> FALSE,
     currentUserProfile |-> NullFamilyProfile,
     familyDocListener |-> NullRef, firestoreListener |-> NullRef]
\* a write to users/<Subject> is delivered to the subscribed profile listeners
UserDocWritten(scr) == IF scr.listening THEN [scr EXCEPT !.pending = TRUE] ELSE scr
FamilyUsers == {"A", "B"}
FamilyDocIds == {"G1", "G2"}
Devices == {1, 2}
NoFamilyDoc == [exists |-> FALSE, inviteCode |-> <<>>, adminId |-> "none", members |-> {}]
NoOp == [kind |-> "none", user |-> "none", stage |-> "idle", inviteCode |-> <<>>,
         familyId |-> NoFamily, userSnap |-> [familyId |-> NoFamily, role |-> "none"],
         attempts |-> <<>>]
\* users documents as signup writes them (no familyId), no families yet
FamilyStoreIdle ==
    [users |-> [u \in FamilyUsers |-> [familyId |-> NoFamily, role |-> "none"]],
     families |-> [f \in FamilyDocIds |-> NoFamilyDoc],
     ops |-> [d \in Devices |-> NoOp]]
DefaultSettings == [shareLocation |-> TRUE, batteryAlerts |-> TRUE]
NullProfile == [null |-> TRUE, settings |-> DefaultSettings]
SettingsAt(doc) == [doc |-> doc, profile |-> doc]
FamilyTabIdle == familyScreen = FamilyScreenIdle /\ familyStore = FamilyStoreIdle

\* ------------------------------------------------------------- helpers

\* JavaScript truthiness of a number that may be absent: !x is true for
\* undefined and for 0.
Truthy(x) == x /= -1 /\ x /= 0

CeilSqrt(n) == CHOOSE k \in 0..n : k * k >= n /\ (k = 0 \/ (k - 1) * (k - 1) < n)

\* functions/src/index.ts
getDistance(lat1, lon1, lat2, lon2) ==
    CeilSqrt((lat2 - lat1) * (lat2 - lat1) + (lon2 - lon1) * (lon2 - lon1))

\* utils/helpers.ts
helpers_getDistance(lat1, lon1, lat2, lon2) ==
    CeilSqrt((lat2 - lat1) * (lat2 - lat1) + (lon2 - lon1) * (lon2 - lon1))

\* Math.round(level * 100) of a reading given in 1/1000
RoundPercent(reading) == (reading + 5) \div 10

Members(fam) == {u \in Users : familyOf[u] = fam}

Candidate(f, t) == [fence |-> f, type |-> t]
LowBattery == Candidate(NoFence, "low_battery")

\* The newest notification of the subject with that type and fence: what
\* where(triggeringUid).where(relatedGeofenceId).where(type)
\* .orderBy(timestamp, desc).limit(1) returns; NoTime when the query is empty.
LatestTs(L, c) ==
    LET M == {e \in L : e.triggeringUid = Subject /\ e.type = c.type
                        /\ e.relatedGeofenceId = c.fence}
    IN IF M = {} THEN NoTime
       ELSE CHOOSE t \in {e.timestamp : e \in M} : \A e \in M : e.timestamp <= t

Ledger(L, cands) == {[fence |-> c.fence, type |-> c.type, ts |-> LatestTs(L, c)] : c \in cands}

Notification(c, fam, r, t, by) ==
    [type |-> c.type, relatedGeofenceId |-> c.fence, triggeringUid |-> Subject,
     recipientUid |-> r, familyId |-> fam, timestamp |-> t, by |-> by, read |-> FALSE]

\* who wrote a notification: the map screen, or the invocation in slot s
ByClient == 0
ByServer(s) == s

NoEval ==
    [rt |-> "none", kind |-> "none", prev |-> NoLoc, cur |-> NoLoc,
     prevBat |-> NoBat, curBat |-> NoBat, fences |-> {}, detected |-> {},
     allowed |-> {}, ledger |-> {}, outcomes |-> <<>>, result |-> "none", reset |-> "none"]

IdleInv ==
    [st |-> "idle", kind |-> "none", oldLocation |-> NoLoc, newLocation |-> NoLoc,
     previousBatteryLevel |-> NoBat, batteryLevel |-> NoBat,
     after |-> FALSE, familyId |-> NoFamily, allowed |-> {}]

NoProfile == [loaded |-> FALSE, familyId |-> NoFamily]
NoEffect == [active |-> FALSE, familyId |-> NoFamily, geofences |-> {}]
NoCooldowns == [f \in FenceIds |-> NoTime]

\* app/geofences/[geofenceId].tsx
INITIAL_RADIUS == 200
MIN_RADIUS == 50
MAX_RADIUS == 5000

\* document ids of the geofences collection; "new" is the route of a creation
EditIds == {"g1", "g2", "g3"}
NewId == "new"

\* text is a sequence of characters
NoText == <<>>
NoDoc == [name |-> NoText, radius |-> -1, center |-> NoLoc, familyId |-> NoFamily]

\* the collection when the screen is first opened: one fence of each group
InitCollection ==
    [g \in EditIds |->
        IF g = "g1"
        THEN [name |-> <<"H">>, radius |-> 100, center |-> [latitude |-> 1, longitude |-> 1],
              familyId |-> "F1"]
        ELSE IF g = "g2"
        THEN [name |-> <<"W">>, radius |-> 300, center |-> [latitude |-> 3, longitude |-> 1],
              familyId |-> "F2"]
        ELSE NoDoc]

\* useState initial values of GeofenceEditScreen
ClosedEditor(profile) ==
    [open |-> FALSE, geofenceId |-> NewId, name |-> NoText, radius |-> INITIAL_RADIUS,
     center |-> NoLoc, currentUserProfile |-> profile]

NoEditProfile == [role |-> "none", familyId |-> NoFamily]

AuthUids == {"A", "B"}
NoUser == "none"
\* currentUserProfile null
NoAuthProfile == [id |-> "none", familyId |-> NoFamily]
NoUserDoc == [exists |-> FALSE, familyId |-> NoFamily]

\* AuthProvider after its first render: the useState values, the effects of
\* the mount still due; onAuthStateChanged has not called back yet
\* (authChecked); session is the user Firebase Auth holds as signed in
AuthMounted(docs) ==
    [user |-> NoUser, currentUserProfile |-> NoAuthProfile, loadingAuth |-> TRUE,
     profileListener |-> NoUser, effectDue |-> TRUE, authChecked |-> FALSE,
     session |-> NoUser, docs |-> docs]

\* useState initial values of SignupScreen; inFlight: the signup call of
\* handleSignup has not settled
SignupIdle ==
    [email |-> NoText, password |-> NoText, confirmPassword |-> NoText,
     isLoading |-> FALSE, error |-> "none", inFlight |-> FALSE]

\* the edit screen is not on the navigation stack, nobody signs in or out
EditorIdle ==
    /\ signupScreen = SignupIdle
    /\ userSettings = SettingsAt(DefaultSettings)
    /\ FamilyTabIdle
    /\ authCtx = AuthMounted([u \in AuthUids |-> NoUserDoc])
    /\ editor = ClosedEditor(NoEditProfile)
    /\ geofenceCollection = InitCollection
NoFlight == [allowed |-> {}, familyId |-> NoFamily, tornDown |-> FALSE]

\* ------------------------------------------- server: checkGeofences

SrvLocationsValid_newOnly(oldLocation, newLocation) ==
    Truthy(newLocation.latitude) /\ Truthy(newLocation.longitude)

\* the location validation at the head of checkGeofences
SrvLocationsValid(oldLocation, newLocation) ==
    /\ Truthy(newLocation.latitude) /\ Truthy(newLocation.longitude)
    /\ Truthy(oldLocation.latitude) /\ Truthy(oldLocation.longitude)

SrvFenceValid_unchecked(f) == TRUE
SrvFenceValid(f) ==
    /\ Truthy(GeofenceDocs[f].center.latitude)
    /\ Truthy(GeofenceDocs[f].center.longitude)
    /\ Truthy(GeofenceDocs[f].radius)

\* the fences the loop of checkGeofences gets as far as evaluating
SrvFencesEvaluated(oldLocation, newLocation, fam) ==
    IF SrvLocationsValid(oldLocation, newLocation) /\ fam /= NoFamily
    THEN {f \in FenceIds : GeofenceDocs[f].familyId = fam /\ SrvFenceValid(f)}
    ELSE {}

SrvInside_strict(loc, f) ==
    getDistance(loc.latitude, loc.longitude,
                GeofenceDocs[f].center.latitude, GeofenceDocs[f].center.longitude)
        < GeofenceDocs[f].radius

SrvInside(loc, f) ==
    getDistance(loc.latitude, loc.longitude,
                GeofenceDocs[f].center.latitude, GeofenceDocs[f].center.longitude)
        <= GeofenceDocs[f].radius

SrvEventType(oldLocation, newLocation, f) ==
    LET wasInside == SrvInside(oldLocation, f)
        isInside == SrvInside(newLocation, f)
    IN IF ~wasInside /\ isInside THEN "geofence_entry"
       ELSE IF wasInside /\ ~isInside THEN "geofence_exit"
       ELSE "none"

SrvGeoDetected(oldLocation, newLocation, fam) ==
    {Candidate(f, SrvEventType(oldLocation, newLocation, f)) :
        f \in {g \in SrvFencesEvaluated(oldLocation, newLocation, fam) :
                  SrvEventType(oldLocation, newLocation, g) /= "none"}}

SrvGeoCooldownActive_never(c, L, t) == FALSE

\* the cooldown check of checkGeofences: TRUE when the fence is skipped
SrvGeoCooldownActive(c, L, t) ==
    LET ts == LatestTs(L, c)
    IN ts /= NoTime /\ t < ts + NOTIFICATION_COOLDOWN_MS_geofence

SrvGeoAllowed(oldLocation, newLocation, fam, L, t) ==
    {c \in SrvGeoDetected(oldLocation, newLocation, fam) : ~SrvGeoCooldownActive(c, L, t)}

\* ------------------------------------------- server: checkLowBattery

SrvLowBatteryDetected(previousBatteryLevel, batteryLevel) ==
    /\ batteryLevel /= NoBat
    /\ batteryLevel <= LOW_BATTERY_THRESHOLD
    /\ (previousBatteryLevel = NoBat \/ previousBatteryLevel > LOW_BATTERY_THRESHOLD)

SrvBatCooldownActive(L, t) ==
    LET ts == LatestTs(L, LowBattery)
    IN ts /= NoTime /\ t < ts + NOTIFICATION_COOLDOWN_MS_lowBattery

SrvBatDetected(previousBatteryLevel, batteryLevel) ==
    IF SrvLowBatteryDetected(previousBatteryLevel, batteryLevel) THEN {LowBattery} ELSE {}

SrvBatAllowed_noFamilyCheck(previousBatteryLevel, batteryLevel, fam, L, t) ==
    {c \in SrvBatDetected(previousBatteryLevel, batteryLevel) : ~SrvBatCooldownActive(L, t)}

\* what goes on to the fan-out: past the cooldown check and the familyId check
SrvBatAllowed(previousBatteryLevel, batteryLevel, fam, L, t) ==
    {c \in SrvBatDetected(previousBatteryLevel, batteryLevel) :
        ~SrvBatCooldownActive(L, t) /\ fam /= NoFamily}

\* ------------------------------------------- server: sendAndStoreNotification

\* One call per (allowed event, recipient); out gives the outcome of the push
\* (or of the write that follows it).  The document is written only after a
\* push that succeeded, to a recipient that has a token.
SrvStored(allowed, fam, out, tokens, t, by) ==
    {Notification(c, fam, r, t, by) :
        <<c, r>> \in {p \in allowed \X (Members(fam) \ {Subject}) :
                        p[2] \in tokens /\ out[p] = "delivered"}}

SrvTokensCleared_anyFailure(allowed, fam, out, tokens) ==
    {r \in tokens : \E c \in allowed :
        r \in Members(fam) \ {Subject} /\ out[<<c, r>>] /= "delivered"}

\* the catch: the token is deleted when the error code says it is invalid
SrvTokensCleared(allowed, fam, out, tokens) ==
    {r \in tokens : \E c \in allowed :
        r \in Members(fam) \ {Subject} /\ out[<<c, r>>] = "invalidToken"}

SrvOutcomes(allowed, fam) == [allowed \X (Members(fam) \ {Subject}) -> PushOutcomes]

\* what became of each call: the recipient had no fcmToken, or the outcome
\* of sendToDevice
SrvPushResults(allowed, fam, out, tokens) ==
    [p \in allowed \X (Members(fam) \ {Subject}) |->
        IF p[2] \in tokens THEN out[p] ELSE "noToken"]

\* ------------------------------------------- client: checkCurrentUserGeofences

ClientGuard(previousLoc, currentLoc, eff) ==
    /\ Truthy(currentLoc.latitude)
    /\ Truthy(previousLoc.latitude)
    /\ eff.geofences /= {}
    /\ eff.familyId /= NoFamily

ClientFenceValid(f) ==
    /\ Truthy(GeofenceDocs[f].center.latitude)
    /\ Truthy(GeofenceDocs[f].center.longitude)
    /\ Truthy(GeofenceDocs[f].radius)

ClientFencesEvaluated(previousLoc, currentLoc, eff) ==
    IF ClientGuard(previousLoc, currentLoc, eff)
    THEN {f \in eff.geofences : ClientFenceValid(f)}
    ELSE {}

ClientInside(loc, f) ==
    helpers_getDistance(loc.latitude, loc.longitude,
                        GeofenceDocs[f].center.latitude, GeofenceDocs[f].center.longitude)
        <= GeofenceDocs[f].radius

ClientEventType(previousLoc, currentLoc, f) ==
    LET wasInside == ClientInside(previousLoc, f)
        isInside == ClientInside(currentLoc, f)
    IN IF ~wasInside /\ isInside THEN "geofence_entry"
       ELSE IF wasInside /\ ~isInside THEN "geofence_exit"
       ELSE "none"

ClientGeoDetected(previousLoc, currentLoc, eff) ==
    {Candidate(f, ClientEventType(previousLoc, currentLoc, f)) :
        f \in {g \in ClientFencesEvaluated(previousLoc, currentLoc, eff) :
                  ClientEventType(previousLoc, currentLoc, g) /= "none"}}

\* !lastAlertTime || (now - lastAlertTime > GEOFENCE_COOLDOWN_PERIOD)
ClientGeoCooldownPassed(c, cooldowns, t) ==
    LET lastAlertTime == cooldowns[c.fence]
    IN ~Truthy(lastAlertTime) \/ (t - lastAlertTime > GEOFENCE_COOLDOWN_PERIOD)

ClientGeoAllowed(previousLoc, currentLoc, eff, cooldowns, t) ==
    {c \in ClientGeoDetected(previousLoc, currentLoc, eff) :
        ClientGeoCooldownPassed(c, cooldowns, t)}

\* ------------------------------------------- client: battery listener

\* newLevel <= LOW_BATTERY_THRESHOLD && profile && currentFamilyId
ClientLowBattery(newLevel, profile) ==
    newLevel <= LOW_BATTERY_THRESHOLD /\ profile.loaded /\ profile.familyId /= NoFamily

\* !lastLowBatteryAlertSent.current || (now - last > BATTERY_COOLDOWN_PERIOD)
ClientBatCooldownPassed(last, t) ==
    ~Truthy(last) \/ (t - last > BATTERY_COOLDOWN_PERIOD)

\* const batteryAlertsEnabled = profile.settings?.batteryAlerts ?? true
batteryAlertsEnabled(profile) == profile.settings.batteryAlerts

ClientBatAllowed(newLevel, profile, last, t) ==
    IF /\ ClientLowBattery(newLevel, profile)
       /\ batteryAlertsEnabled(profile)
       /\ ClientBatCooldownPassed(last, t)
    THEN {LowBattery} ELSE {}

\* ------------------------------------------- client: createNotificationsForFamily

\* One document per other member of the family; written is the set of
\* recipients whose addDoc succeeded.
ClientStored(allowed, fam, written, t) ==
    {Notification(c, fam, r, t, ByClient) : <<c, r>> \in allowed \X written}

ClientRecipients_all(fam) == IF fam = NoFamily THEN {} ELSE Members(fam)

\* getOtherFamilyMemberUids: the users whose familyId is fam, the caller left out
ClientRecipients(fam) == IF fam = NoFamily THEN {} ELSE Members(fam) \ {Subject}

\* ------------------------------------------------------------- state

Init ==
    /\ now = StartMs
    /\ EditorIdle
    /\ moves = 0
    /\ familyOf = InitFamilyOf
    /\ fcmToken = {"B"}
    /\ liveLoc = NoLoc
    /\ liveBat = NoBat
    /\ sosActive = FALSE
    /\ log = {}
    /\ srvInv = [s \in Slots |-> IdleInv]
    /\ currentUserProfile = NoProfile
    /\ geofences = {}
    /\ effect3 = NoEffect
    /\ rtdbListeners = {}
    /\ liveSubs = [u \in Users |-> 0]
    /\ livePending = FALSE
    /\ batteryFetch = TRUE
    /\ previousUserLocation = NoLoc
    /\ lastLowBatteryAlertSent = NoTime
    /\ geofenceCooldowns = NoCooldowns
    /\ clientInFlight = NoFlight
    /\ lastEval = NoEval

FreeSlots == {s \in Slots : srvInv[s].st = "idle"}
FirstFree == CHOOSE s \in FreeSlots : \A t \in FreeSlots : s <= t

\* A write to liveData starts one invocation of the trigger watching the
\* path; lim is the number of invocations that may be in flight at once.
CanTrigger(lim) == Cardinality(Slots \ FreeSlots) < lim

\* onValueUpdated fires only when the node existed before the write
TriggerGeofences(before, after) ==
    IF before /= NoLoc
    THEN [srvInv EXCEPT ![FirstFree] =
            [IdleInv EXCEPT !.st = "triggered", !.kind = "geofence",
                            !.oldLocation = before, !.newLocation = after]]
    ELSE srvInv

TriggerLowBattery(before, after) ==
    IF before /= NoBat
    THEN [srvInv EXCEPT ![FirstFree] =
            [IdleInv EXCEPT !.st = "triggered", !.kind = "battery",
                            !.previousBatteryLevel = before, !.batteryLevel = after]]
    ELSE srvInv

\* ----------------------------------------------------- environment

Tick(period) ==
    /\ now < StartMs + MaxTicks * period
    /\ now' = now + period
    /\ lastEval' = NoEval
    /\ UNCHANGED <<familyTab, userSettings, signupScreen, authCtx, geofenceEdit, moves, durable, srvInv, client>>

\* explore.tsx handleJoinFamily / handleCreateFamily: the transaction sets
\* the familyId of a user that has none
JoinFamily(fam) ==
    /\ familyOf[Subject] = NoFamily
    /\ moves < MaxMoves
    /\ moves' = moves + 1
    /\ familyOf' = [familyOf EXCEPT ![Subject] = fam]
    /\ lastEval' = NoEval
    /\ UNCHANGED <<familyTab, userSettings, signupScreen, authCtx, geofenceEdit, sosActive, now, fcmToken, liveLoc, liveBat, log, srvInv, client>>

\* the subject leaves its group (the registry is an external collaborator)
LeaveFamily ==
    /\ familyOf[Subject] /= NoFamily
    /\ moves < MaxMoves
    /\ moves' = moves + 1
    /\ familyOf' = [familyOf EXCEPT ![Subject] = NoFamily]
    /\ lastEval' = NoEval
    /\ UNCHANGED <<familyTab, userSettings, signupScreen, authCtx, geofenceEdit, sosActive, now, fcmToken, liveLoc, liveBat, log, srvInv, client>>

\* ----------------------------------------------------- client: MapScreen

\* cleanupEffect3 cancels the listeners; the createNotificationsForFamily
\* calls already started are not touched and go on, tornDown records that
\* the cleanup ran while they were in flight
ClientAfterCleanup(flight) ==
    IF flight.allowed = {} THEN flight ELSE [flight EXCEPT !.tornDown = TRUE]

\* The profile listener of Effect 2 delivers the user document; the render
\* that follows runs Effect 3 when currentUserProfile.familyId has changed.
\* The listeners Effect 3 sets up close over the geofences state and the
\* profile of that render.
ProfileSnapshot ==
    LET fam == familyOf[Subject] IN
    /\ ~currentUserProfile.loaded \/ fam /= currentUserProfile.familyId
    /\ currentUserProfile' = [loaded |-> TRUE, familyId |-> fam]
    /\ userSettings' = [userSettings EXCEPT !.profile = userSettings.doc]
    /\ IF fam = NoFamily
       THEN /\ effect3' = NoEffect
            /\ geofences' = {}
       ELSE /\ effect3' = [active |-> TRUE, familyId |-> fam, geofences |-> geofences]
            /\ UNCHANGED geofences
    /\ rtdbListeners' = {}
    /\ liveSubs' = [u \in Users |-> IF u \in rtdbListeners THEN liveSubs[u] - 1 ELSE liveSubs[u]]
    /\ livePending' = FALSE
    /\ batteryFetch' = TRUE
    /\ previousUserLocation' = NoLoc
    /\ lastEval' = NoEval
    /\ clientInFlight' = ClientAfterCleanup(clientInFlight)
    /\ UNCHANGED <<familyTab, signupScreen, authCtx, geofenceEdit, now, moves, durable, srvInv, lastLowBatteryAlertSent, geofenceCooldowns>>

\* The same listener, called for a change of the settings alone: the new
\* profile object re-runs the battery effect (its dependency is the whole
\* profile), not Effect 3 (its dependency is the familyId).
SettingsSnapshot ==
    /\ currentUserProfile.loaded
    /\ familyOf[Subject] = currentUserProfile.familyId
    /\ userSettings.profile /= userSettings.doc
    /\ userSettings' = [userSettings EXCEPT !.profile = userSettings.doc]
    /\ batteryFetch' = TRUE
    /\ lastEval' = NoEval
    /\ UNCHANGED <<familyTab, signupScreen, authCtx, geofenceEdit, now, moves, durable, srvInv,
                   currentUserProfile, geofences, effect3, rtdbListeners, liveSubs, livePending,
                   previousUserLocation, lastLowBatteryAlertSent, geofenceCooldowns, clientInFlight>>

\* rtdbListeners.current.forEach: the listeners of members that are not in
\* the snapshot are cancelled and deleted
MembersToUnsubscribe(listeners, currentMemberIds) == listeners \ currentMemberIds

MembersToSubscribe_all(listeners, currentMemberIds) == currentMemberIds

\* currentMemberIds.forEach: a listener is added for the members that
\* have none, !rtdbListeners.current.has(memberId)
MembersToSubscribe(listeners, currentMemberIds) == currentMemberIds \ listeners

\* the members listener of Effect 3
MembersSnapshot ==
    LET currentMemberIds == Members(effect3.familyId)
        removed == MembersToUnsubscribe(rtdbListeners, currentMemberIds)
        added == MembersToSubscribe(rtdbListeners, currentMemberIds)
    IN
    /\ effect3.active
    /\ currentMemberIds /= rtdbListeners
    /\ rtdbListeners' = (rtdbListeners \ removed) \cup added
    /\ liveSubs' = [u \in Users |->
                      liveSubs[u] - (IF u \in removed THEN 1 ELSE 0)
                                  + (IF u \in added THEN 1 ELSE 0)]
    /\ livePending' = IF Subject \in rtdbListeners'
                      THEN (livePending \/ Subject \in added)
                      ELSE FALSE
    /\ UNCHANGED <<familyTab, userSettings, signupScreen, authCtx, geofenceEdit, now, moves, durable, srvInv, currentUserProfile, geofences, effect3,
                   batteryFetch, previousUserLocation, lastLowBatteryAlertSent, geofenceCooldowns, clientInFlight>>
    /\ lastEval' = NoEval

GeofencesOfSnapshot(fam) ==
    {f \in FenceIds : /\ GeofenceDocs[f].familyId = fam
                      /\ Truthy(GeofenceDocs[f].center.latitude)
                      /\ Truthy(GeofenceDocs[f].center.longitude)
                      /\ Truthy(GeofenceDocs[f].radius)}

\* the geofences listener of Effect 3
GeofencesSnapshot ==
    /\ effect3.active
    /\ geofences /= GeofencesOfSnapshot(effect3.familyId)
    /\ geofences' = GeofencesOfSnapshot(effect3.familyId)
    /\ UNCHANGED <<familyTab, userSettings, signupScreen, authCtx, geofenceEdit, now, moves, durable, srvInv, currentUserProfile, effect3, rtdbListeners, liveSubs,
                   livePending, batteryFetch, previousUserLocation,
                   lastLowBatteryAlertSent, geofenceCooldowns, clientInFlight>>
    /\ lastEval' = NoEval

\* const shareLocationEnabled = currentUserProfile?.settings?.shareLocation ?? true
shareLocationEnabled(profile) ==
    IF profile.null THEN TRUE ELSE profile.settings.shareLocation

\* The currentUserProfile that fetchDeviceLocationAndUpdateRtdb reads is the
\* one of the render that created the callback: useCallback re-creates it
\* when user or locationPermissionStatus changes, not when the profile does.
\* Effect 2 subscribes the profile listener only once the permission is
\* granted, so at that render the profile state still holds its initial null.
FetchClosureProfile == NullProfile

\* fetchDeviceLocationAndUpdateRtdb, run by the interval that the profile
\* listener starts: the device writes its position c to liveData.
UpdateLocation(c, lim) ==
    /\ currentUserProfile.loaded
    /\ shareLocationEnabled(FetchClosureProfile)
    /\ ~livePending
    /\ Cardinality(log) < MaxLog
    /\ CanTrigger(lim)
    /\ liveLoc' = c
    /\ srvInv' = TriggerGeofences(liveLoc, c)
    /\ livePending' = (Subject \in rtdbListeners)
    /\ UNCHANGED <<familyTab, userSettings, signupScreen, authCtx, geofenceEdit, sosActive, now, moves, familyOf, fcmToken, liveBat, log, currentUserProfile, geofences,
                   effect3, rtdbListeners, liveSubs, batteryFetch, previousUserLocation,
                   lastLowBatteryAlertSent, geofenceCooldowns, clientInFlight>>
    /\ lastEval' = NoEval

\* settings.tsx updateFirestoreSetting: updateDoc of settings.<key>; when it
\* is rejected the document keeps its value (and the switch is set back)
updateFirestoreSetting(st, key, value, ok) ==
    IF ok THEN [st EXCEPT !.doc[key] = value] ELSE st

\* settings.tsx toggleLocationSharing.  The switch shows the value of the
\* document.  Switched off, the location node of liveData is removed, whether
\* or not the setting was saved.  A removal is not an update, so the trigger
\* of checkGeofences does not run; the listeners of liveData are called.
toggleLocationSharing(ok) ==
    LET newValue == ~userSettings.doc.shareLocation IN
    /\ currentUserProfile.loaded
    /\ userSettings' = updateFirestoreSetting(userSettings, "shareLocation", newValue, ok)
    /\ familyScreen' = IF ok THEN UserDocWritten(familyScreen) ELSE familyScreen
    /\ IF ~newValue
       THEN /\ liveLoc' = NoLoc
            /\ livePending' = (livePending \/ (liveLoc /= NoLoc /\ Subject \in rtdbListeners))
       ELSE UNCHANGED <<liveLoc, livePending>>
    /\ lastEval' = NoEval
    /\ UNCHANGED <<familyStore, signupScreen, authCtx, geofenceEdit, now, moves, familyOf, fcmToken, liveBat, sosActive, log, srvInv,
                   currentUserProfile, geofences, effect3, rtdbListeners, liveSubs, batteryFetch,
                   previousUserLocation, lastLowBatteryAlertSent, geofenceCooldowns, clientInFlight>>

\* settings.tsx toggleBatteryAlerts
toggleBatteryAlerts(ok) ==
    LET newValue == ~userSettings.doc.batteryAlerts IN
    /\ userSettings' = updateFirestoreSetting(userSettings, "batteryAlerts", newValue, ok)
    /\ familyScreen' = IF ok THEN UserDocWritten(familyScreen) ELSE familyScreen
    /\ lastEval' = NoEval
    /\ UNCHANGED <<familyStore, signupScreen, authCtx, geofenceEdit, now, moves, durable, srvInv, client>>

ClientNextPrevious_kept(previousLoc, currentLoc) ==
    IF previousLoc = NoLoc THEN currentLoc ELSE previousLoc

\* previousUserLocation.current = liveData.currentLocation, after the check
ClientNextPrevious(previousLoc, currentLoc) == currentLoc

\* The onValue callback of liveData/<Subject>: the geofence check of the
\* new location against the previous one, then the previous one is replaced.
LiveDataCallback ==
    /\ Subject \in rtdbListeners
    /\ livePending
    /\ livePending' = FALSE
    /\ IF liveLoc = NoLoc
       THEN /\ lastEval' = NoEval
            /\ UNCHANGED <<log, previousUserLocation, geofenceCooldowns>>
       ELSE
         LET called == previousUserLocation /= NoLoc
             det == IF called
                    THEN ClientGeoDetected(previousUserLocation, liveLoc, effect3) ELSE {}
             alw == IF called
                    THEN ClientGeoAllowed(previousUserLocation, liveLoc, effect3,
                                          geofenceCooldowns, now)
                    ELSE {}
         IN /\ previousUserLocation' = ClientNextPrevious(previousUserLocation, liveLoc)
            /\ geofenceCooldowns' =
                 [f \in FenceIds |-> IF \E c \in alw : c.fence = f
                                     THEN now ELSE geofenceCooldowns[f]]
            /\ \E written \in SUBSET ClientRecipients(effect3.familyId) :
                 log' = log \cup ClientStored(alw, effect3.familyId, written, now)
            /\ lastEval' =
                 [rt |-> "client", kind |-> "geofence",
                  prev |-> previousUserLocation, cur |-> liveLoc,
                  prevBat |-> NoBat, curBat |-> NoBat,
                  fences |-> IF called
                             THEN ClientFencesEvaluated(previousUserLocation, liveLoc, effect3)
                             ELSE {},
                  detected |-> det, allowed |-> alw,
                  ledger |-> Ledger(log, det),
                  outcomes |-> <<>>, result |-> "none", reset |-> "none"]
    /\ UNCHANGED <<familyTab, userSettings, signupScreen, authCtx, geofenceEdit, sosActive, now, moves, familyOf, fcmToken, liveLoc, liveBat, srvInv, currentUserProfile,
                   geofences, effect3, rtdbListeners, liveSubs, batteryFetch, lastLowBatteryAlertSent, clientInFlight>>

\* The same callback in two steps, as it runs when the rest of the screen
\* goes on before the notifications are written: first the check, up to the
\* createNotificationsForFamily calls it starts ...
LiveDataCheck ==
    /\ Subject \in rtdbListeners
    /\ livePending
    /\ clientInFlight.allowed = {}
    /\ livePending' = FALSE
    /\ IF liveLoc = NoLoc
       THEN /\ lastEval' = NoEval
            /\ UNCHANGED <<previousUserLocation, geofenceCooldowns, clientInFlight>>
       ELSE
         LET called == previousUserLocation /= NoLoc
             det == IF called
                    THEN ClientGeoDetected(previousUserLocation, liveLoc, effect3) ELSE {}
             alw == IF called
                    THEN ClientGeoAllowed(previousUserLocation, liveLoc, effect3,
                                          geofenceCooldowns, now)
                    ELSE {}
         IN /\ previousUserLocation' = ClientNextPrevious(previousUserLocation, liveLoc)
            /\ geofenceCooldowns' =
                 [f \in FenceIds |-> IF \E c \in alw : c.fence = f
                                     THEN now ELSE geofenceCooldowns[f]]
            /\ clientInFlight' = IF alw = {} THEN NoFlight
                                 ELSE [allowed |-> alw, familyId |-> effect3.familyId,
                                       tornDown |-> FALSE]
            /\ lastEval' =
                 [rt |-> "client", kind |-> "geofence",
                  prev |-> previousUserLocation, cur |-> liveLoc,
                  prevBat |-> NoBat, curBat |-> NoBat,
                  fences |-> IF called
                             THEN ClientFencesEvaluated(previousUserLocation, liveLoc, effect3)
                             ELSE {},
                  detected |-> det, allowed |-> alw,
                  ledger |-> Ledger(log, det),
                  outcomes |-> <<>>, result |-> "none", reset |-> "none"]
    /\ UNCHANGED <<familyTab, userSettings, signupScreen, authCtx, geofenceEdit, now, moves, durable, srvInv, currentUserProfile, geofences, effect3,
                   rtdbListeners, liveSubs, batteryFetch, lastLowBatteryAlertSent>>

\* ... then the calls settle: the documents are written
ClientStore ==
    /\ clientInFlight.allowed /= {}
    /\ \E written \in SUBSET ClientRecipients(clientInFlight.familyId) :
         log' = log \cup ClientStored(clientInFlight.allowed, clientInFlight.familyId,
                                      written, now)
    /\ clientInFlight' = NoFlight
    /\ lastEval' = [NoEval EXCEPT !.rt = "client", !.kind = "store",
                                  !.allowed = clientInFlight.allowed]
    /\ UNCHANGED <<familyTab, userSettings, signupScreen, authCtx, geofenceEdit, now, moves, familyOf, fcmToken, liveLoc, liveBat, sosActive, srvInv,
                   currentUserProfile, geofences, effect3, rtdbListeners, liveSubs, livePending,
                   batteryFetch, previousUserLocation, lastLowBatteryAlertSent,
                   geofenceCooldowns>>

\* The battery level listener: writes the level to liveData, then the
\* low-battery check and createNotificationsForFamily.
BatteryChange(reading, lim) ==
    LET newLevel == RoundPercent(reading)
        profile == [loaded |-> currentUserProfile.loaded,
                    familyId |-> currentUserProfile.familyId,
                    settings |-> userSettings.profile]
        low == ClientLowBattery(newLevel, profile)
        alw == ClientBatAllowed(newLevel, profile, lastLowBatteryAlertSent, now)
    IN
    /\ Cardinality(log) < MaxLog
    /\ CanTrigger(lim)
    /\ liveBat' = newLevel
    /\ srvInv' = TriggerLowBattery(liveBat, newLevel)
    /\ livePending' = (livePending \/ Subject \in rtdbListeners)
    /\ lastLowBatteryAlertSent' =
         IF alw /= {} THEN now
         ELSE IF ~low /\ newLevel > LOW_BATTERY_THRESHOLD THEN NoTime
         ELSE lastLowBatteryAlertSent
    /\ \E written \in SUBSET ClientRecipients(profile.familyId) :
         log' = log \cup ClientStored(alw, profile.familyId, written, now)
    /\ lastEval' =
         [rt |-> "client", kind |-> "battery", prev |-> NoLoc, cur |-> NoLoc,
          prevBat |-> liveBat, curBat |-> newLevel, fences |-> {},
          detected |-> IF low THEN {LowBattery} ELSE {},
          allowed |-> alw,
          ledger |-> Ledger(log, IF low THEN {LowBattery} ELSE {}),
          outcomes |-> <<>>, result |-> "none", reset |-> "none"]
    /\ UNCHANGED <<familyTab, userSettings, signupScreen, authCtx, geofenceEdit, sosActive, now, moves, familyOf, fcmToken, liveLoc, currentUserProfile, geofences, effect3,
                   rtdbListeners, liveSubs, batteryFetch, previousUserLocation, geofenceCooldowns, clientInFlight>>

\* The battery effect, run at mount and whenever the profile changes, fetches
\* the level and writes it to liveData; nothing is checked.
InitialBatteryLevel(reading, lim) ==
    LET initialLevel == RoundPercent(reading) IN
    /\ batteryFetch
    /\ CanTrigger(lim)
    /\ batteryFetch' = FALSE
    /\ liveBat' = initialLevel
    /\ srvInv' = TriggerLowBattery(liveBat, initialLevel)
    /\ livePending' = (livePending \/ Subject \in rtdbListeners)
    /\ lastEval' = NoEval
    /\ UNCHANGED <<familyTab, userSettings, signupScreen, authCtx, geofenceEdit, sosActive, now, moves, familyOf, fcmToken, liveLoc, log, currentUserProfile, geofences,
                   effect3, rtdbListeners, liveSubs, previousUserLocation, lastLowBatteryAlertSent,
                   geofenceCooldowns, clientInFlight>>

\* ----------------------------------------------------- server triggers

SrvEval(inv, det, alw, fences) ==
    [rt |-> "server", kind |-> inv.kind,
     prev |-> inv.oldLocation, cur |-> inv.newLocation,
     prevBat |-> inv.previousBatteryLevel, curBat |-> inv.batteryLevel,
     fences |-> fences, detected |-> det, allowed |-> alw,
     ledger |-> Ledger(log, det),
     outcomes |-> <<>>, result |-> "none", reset |-> "none"]

SrvDetected(inv, fam) ==
    IF inv.kind = "geofence"
    THEN SrvGeoDetected(inv.oldLocation, inv.newLocation, fam)
    ELSE SrvBatDetected(inv.previousBatteryLevel, inv.batteryLevel)

SrvAllowed(inv, fam, L, t) ==
    IF inv.kind = "geofence"
    THEN SrvGeoAllowed(inv.oldLocation, inv.newLocation, fam, L, t)
    ELSE SrvBatAllowed(inv.previousBatteryLevel, inv.batteryLevel, fam, L, t)

SrvFences(inv, fam) ==
    IF inv.kind = "geofence"
    THEN SrvFencesEvaluated(inv.oldLocation, inv.newLocation, fam)
    ELSE {}

\* The fan-out of one invocation: every sendAndStoreNotification it
\* started; ev is the record of the evaluation that led to it.
SrvFanOut(s, allowed, fam, ev) ==
    \E out \in SrvOutcomes(allowed, fam) :
        /\ log' = log \cup SrvStored(allowed, fam, out, fcmToken, now, ByServer(s))
        /\ fcmToken' = fcmToken \ SrvTokensCleared(allowed, fam, out, fcmToken)
        /\ lastEval' = [ev EXCEPT !.outcomes = SrvPushResults(allowed, fam, out, fcmToken)]

\* checkGeofences, run from the trigger to its return
ServerCheckGeofences(s) ==
    LET inv == srvInv[s]
        fam == familyOf[Subject]
    IN
    /\ inv.st = "triggered" /\ inv.kind = "geofence"
    /\ SrvFanOut(s, SrvAllowed(inv, fam, log, now), fam,
                 SrvEval(inv, SrvDetected(inv, fam), SrvAllowed(inv, fam, log, now),
                         SrvFences(inv, fam)))
    /\ srvInv' = [srvInv EXCEPT ![s] = IdleInv]
    /\ UNCHANGED <<familyTab, userSettings, signupScreen, authCtx, geofenceEdit, sosActive, now, moves, familyOf, liveLoc, liveBat, client>>

\* checkLowBattery, run from the trigger to its return
ServerCheckLowBattery(s) ==
    LET inv == srvInv[s]
        fam == familyOf[Subject]
    IN
    /\ inv.st = "triggered" /\ inv.kind = "battery"
    /\ SrvFanOut(s, SrvAllowed(inv, fam, log, now), fam,
                 SrvEval(inv, SrvDetected(inv, fam), SrvAllowed(inv, fam, log, now), {}))
    /\ srvInv' = [srvInv EXCEPT ![s] = IdleInv]
    /\ UNCHANGED <<familyTab, userSettings, signupScreen, authCtx, geofenceEdit, sosActive, now, moves, familyOf, liveLoc, liveBat, client>>

\* The same handlers in two steps, as they run when invocations overlap:
\* first everything up to and including the cooldown query ...
ServerGate(s) ==
    LET inv == srvInv[s]
        fam == familyOf[Subject]
    IN
    /\ inv.st = "triggered"
    /\ srvInv' = [srvInv EXCEPT ![s] =
                    [inv EXCEPT !.st = "gated", !.familyId = fam,
                                !.allowed = SrvAllowed(inv, fam, log, now)]]
    /\ lastEval' = SrvEval(inv, SrvDetected(inv, fam), SrvAllowed(inv, fam, log, now),
                           SrvFences(inv, fam))
    /\ UNCHANGED <<familyTab, userSettings, signupScreen, authCtx, geofenceEdit, now, moves, durable, client>>

SrvSends_recheck(inv, L, t) ==
    {c \in inv.allowed :
        IF c.type = "low_battery" THEN ~SrvBatCooldownActive(L, t)
        ELSE ~SrvGeoCooldownActive(c, L, t)}

\* The events whose sendAndStoreNotification calls the invocation makes:
\* those that passed the cooldown query; the log is not read again.
SrvSends(inv, L, t) == inv.allowed

\* ... then the sendAndStoreNotification calls it started
ServerStore(s) ==
    LET inv == srvInv[s] IN
    /\ inv.st = "gated"
    /\ SrvFanOut(s, SrvSends(inv, log, now), inv.familyId,
                 [NoEval EXCEPT !.rt = "server", !.kind = "store",
                                !.allowed = SrvSends(inv, log, now)])
    /\ srvInv' = [srvInv EXCEPT ![s] = IdleInv]
    /\ UNCHANGED <<familyTab, userSettings, signupScreen, authCtx, geofenceEdit, sosActive, now, moves, familyOf, liveLoc, liveBat, client>>

\* ----------------------------------------------------- SOS

Sos == Candidate(NoFence, "sos")

\* onValueWritten fires on every write to liveData/<uid>/sosActive
TriggerSos(after) ==
    [srvInv EXCEPT ![FirstFree] =
        [IdleInv EXCEPT !.st = "triggered", !.kind = "sos", !.after = after]]

\* The SOS signal: the boolean at liveData/<Subject>/sosActive is written
\* (true by a press, false by whoever clears it).
SosWrite(v, lim) ==
    /\ v /= sosActive
    /\ Cardinality(log) < MaxLog
    /\ CanTrigger(lim)
    /\ sosActive' = v
    /\ srvInv' = TriggerSos(v)
    /\ lastEval' = NoEval
    /\ UNCHANGED <<familyTab, userSettings, signupScreen, authCtx, geofenceEdit, now, moves, familyOf, fcmToken, liveLoc, liveBat, log, client>>

\* event.data.after.exists() && event.data.after.val() === true; a node
\* that is absent or false is FALSE here
SrvSosObserved(after) == after

SrvSosEval(det, alw, reset) ==
    [NoEval EXCEPT !.rt = "server", !.kind = "sos", !.detected = det, !.allowed = alw,
                   !.ledger = Ledger(log, det), !.reset = reset]

\* The invocation that the reset write of the handler in slot s starts: it
\* takes the slot over when the handler returns.
SrvSosAfterReset(s) ==
    [srvInv EXCEPT ![s] =
        IF sosActive
        THEN [IdleInv EXCEPT !.st = "triggered", !.kind = "sos", !.after = FALSE]
        ELSE IdleInv]

\* onSosActivated, run from the trigger to its return.  The reset write
\* comes first; when it is rejected the handler ends there.
ServerSos(s) ==
    LET inv == srvInv[s]
        fam == familyOf[Subject]
    IN
    /\ inv.st = "triggered" /\ inv.kind = "sos"
    /\ IF ~SrvSosObserved(inv.after)
       THEN /\ lastEval' = SrvSosEval({}, {}, "none")
            /\ srvInv' = [srvInv EXCEPT ![s] = IdleInv]
            /\ UNCHANGED <<sosActive, log, fcmToken>>
       ELSE \E resetOk \in BOOLEAN :
            IF ~resetOk
            THEN /\ lastEval' = SrvSosEval({Sos}, {}, "failed")
                 /\ srvInv' = [srvInv EXCEPT ![s] = IdleInv]
                 /\ UNCHANGED <<sosActive, log, fcmToken>>
            ELSE /\ sosActive' = FALSE
                 /\ srvInv' = SrvSosAfterReset(s)
                 /\ SrvFanOut(s, IF fam = NoFamily THEN {} ELSE {Sos}, fam,
                              SrvSosEval({Sos}, IF fam = NoFamily THEN {} ELSE {Sos}, "ok"))
    /\ UNCHANGED <<familyTab, userSettings, signupScreen, authCtx, geofenceEdit, now, moves, familyOf, liveLoc, liveBat, client>>

\* notifications.ts getOtherFamilyMemberUids: the other members of the
\* family, or nothing when the query failed (found = FALSE)
getOtherFamilyMemberUids(fam, found) == IF found THEN ClientRecipients(fam) ELSE {}

\* what createNotificationsForFamily returns: recipientUids is what the
\* lookup gave, written the recipients whose addDoc succeeded
createNotificationsForFamily(fam, recipientUids, written) ==
    IF fam = NoFamily THEN FALSE
    ELSE IF recipientUids = {} THEN TRUE
    ELSE written = recipientUids

\* the addDoc calls createNotificationsForFamily makes for one document, with
\* their results: one call, whose rejection goes to the catch of the function
AddDocAttempts(firstResult) == <<firstResult>>

\* per event and recipient, the addDoc calls made for its document
ClientWrites(allowed, recipientUids, written) ==
    [q \in allowed \X recipientUids |->
        AddDocAttempts(IF q[2] \in written THEN "stored" ELSE "failed")]

\* handleSosPress: the location is refreshed (c, or NoLoc when the device
\* gives none), then the sos notifications are created for the family of
\* the profile the screen holds.
SosPress(c, lim) ==
    LET fam == currentUserProfile.familyId IN
    /\ currentUserProfile.loaded /\ fam /= NoFamily
    /\ Cardinality(log) < MaxLog
    /\ CanTrigger(lim)
    /\ IF c = NoLoc
       THEN UNCHANGED <<liveLoc, srvInv, livePending>>
       ELSE /\ liveLoc' = c
            /\ srvInv' = TriggerGeofences(liveLoc, c)
            /\ livePending' = (livePending \/ Subject \in rtdbListeners)
    /\ \E found \in BOOLEAN :
         LET recipientUids == getOtherFamilyMemberUids(fam, found) IN
         \E written \in SUBSET recipientUids :
            /\ log' = log \cup ClientStored({Sos}, fam, written, now)
            /\ lastEval' =
                 [NoEval EXCEPT !.rt = "client", !.kind = "sos", !.cur = c,
                                !.detected = {Sos}, !.allowed = {Sos},
                                !.ledger = Ledger(log, {Sos}),
                                !.outcomes = ClientWrites({Sos}, recipientUids, written),
                                !.result =
                                   IF createNotificationsForFamily(fam, recipientUids, written)
                                   THEN "true" ELSE "false"]
    /\ UNCHANGED <<familyTab, userSettings, signupScreen, authCtx, geofenceEdit, now, moves, familyOf, fcmToken, liveBat, sosActive, currentUserProfile,
                   geofences, effect3, rtdbListeners, liveSubs, batteryFetch, previousUserLocation,
                   lastLowBatteryAlertSent, geofenceCooldowns, clientInFlight>>

\* ----------------------------------------------------- notifications screen

\* what a set() in place of the update would leave
MarkedAsRead_overwritten(e) ==
    [e EXCEPT !.read = TRUE, !.type = "none", !.triggeringUid = "none"]

\* updateDoc(notifRef, { read: true })
MarkedAsRead(e) == [e EXCEPT !.read = TRUE]

\* handleMarkAsRead: the recipient presses a notification its list shows
\* as unread
MarkAsRead(e) ==
    /\ e \in log /\ ~e.read
    /\ log' = (log \ {e}) \cup {MarkedAsRead(e)}
    /\ lastEval' = NoEval
    /\ UNCHANGED <<familyTab, userSettings, signupScreen, authCtx, geofenceEdit, now, moves, familyOf, fcmToken, liveLoc, liveBat, sosActive, srvInv, client>>

\* ----------------------------------------------------- specifications

Registry ==
    \/ \E fam \in Families : JoinFamily(fam)
    \/ LeaveFamily

\* no invocation of a trigger is in flight and no listener callback is due
Quiet == (\A s \in Slots : srvInv[s].st = "idle") /\ ~livePending

\* The location stream, evaluations one at a time: a sample is written only
\* when no invocation of the trigger is in flight, every invocation runs to
\* its end in one step, and the rest of the world moves between evaluations.
Next ==
    \/ Quiet /\ Tick(GEOFENCE_COOLDOWN_PERIOD)
    \/ Quiet /\ Registry
    \/ Quiet /\ ProfileSnapshot
    \/ Quiet /\ MembersSnapshot
    \/ Quiet /\ GeofencesSnapshot
    \/ LiveDataCallback
    \/ \E c \in Coordinates : UpdateLocation(c, 1)
    \/ \E s \in Slots : ServerCheckGeofences(s)

Spec == Init /\ [][Next]_vars

\* The battery stream, evaluations one at a time.
NextBattery ==
    \/ Quiet /\ Tick(BATTERY_COOLDOWN_PERIOD)
    \/ Quiet /\ Registry
    \/ Quiet /\ ProfileSnapshot
    \/ \E reading \in BatteryReadings : InitialBatteryLevel(reading, 1)
    \/ \E reading \in BatteryReadings : BatteryChange(reading, 1)
    \/ \E s \in Slots : ServerCheckLowBattery(s)

SpecBattery == Init /\ [][NextBattery]_vars

\* Overlapping invocations of the trigger within one tick of the clock:
\* samples keep arriving while earlier invocations are between their
\* cooldown query and their writes.
NextRace ==
    \/ Quiet /\ Registry
    \/ Quiet /\ ProfileSnapshot
    \/ \E reading \in BatteryReadings : InitialBatteryLevel(reading, MaxInv)
    \/ \E reading \in BatteryReadings : BatteryChange(reading, MaxInv)
    \/ \E s \in Slots : ServerGate(s)
    \/ \E s \in Slots : ServerStore(s)

SpecRace == Init /\ [][NextRace]_vars

\* The dispatcher with a group of three: B and C are members of F1 and hold
\* a token each, F2 is a group the subject is alone in.
DispatchFamilyOf == [u \in Users |-> IF u = Subject THEN NoFamily ELSE "F1"]

InitDispatch ==
    /\ now = StartMs
    /\ EditorIdle
    /\ moves = 0
    /\ familyOf = DispatchFamilyOf
    /\ fcmToken = {"B", "C"}
    /\ liveLoc = NoLoc
    /\ liveBat = NoBat
    /\ sosActive = FALSE
    /\ log = {}
    /\ srvInv = [s \in Slots |-> IdleInv]
    /\ currentUserProfile = NoProfile
    /\ geofences = {}
    /\ effect3 = NoEffect
    /\ rtdbListeners = {}
    /\ liveSubs = [u \in Users |-> 0]
    /\ livePending = FALSE
    /\ batteryFetch = TRUE
    /\ previousUserLocation = NoLoc
    /\ lastLowBatteryAlertSent = NoTime
    /\ geofenceCooldowns = NoCooldowns
    /\ clientInFlight = NoFlight
    /\ lastEval = NoEval

\* SOS presses and triggers, and the location writes a press makes, one
\* evaluation at a time, all within one tick of the clock.
NextDispatch ==
    \/ Quiet /\ Registry
    \/ Quiet /\ ProfileSnapshot
    \/ \E c \in Coordinates \cup {NoLoc} : SosPress(c, 1)
    \/ \E v \in BOOLEAN : SosWrite(v, 1)
    \/ \E s \in Slots : ServerSos(s)
    \/ \E s \in Slots : ServerCheckGeofences(s)

SpecDispatch == InitDispatch /\ [][NextDispatch]_vars

\* The location stream with sharing switched off and on again, all within
\* one tick of the clock.
NextSharing ==
    \/ Quiet /\ Registry
    \/ Quiet /\ ProfileSnapshot
    \/ Quiet /\ MembersSnapshot
    \/ Quiet /\ GeofencesSnapshot
    \/ Quiet /\ \E ok \in BOOLEAN : toggleLocationSharing(ok)
    \/ LiveDataCallback
    \/ \E c \in Coordinates : UpdateLocation(c, 1)
    \/ \E s \in Slots : ServerCheckGeofences(s)

SpecSharing == Init /\ [][NextSharing]_vars

\* The map screen of a subject that starts as a member of F1, its
\* notification writes settling while the screen goes on.
TeardownFamilyOf == [InitFamilyOf EXCEPT ![Subject] = "F1"]

InitTeardown ==
    /\ now = StartMs
    /\ EditorIdle
    /\ moves = 0
    /\ familyOf = TeardownFamilyOf
    /\ fcmToken = {"B"}
    /\ liveLoc = NoLoc
    /\ liveBat = NoBat
    /\ sosActive = FALSE
    /\ log = {}
    /\ srvInv = [s \in Slots |-> IdleInv]
    /\ currentUserProfile = NoProfile
    /\ geofences = {}
    /\ effect3 = NoEffect
    /\ rtdbListeners = {}
    /\ liveSubs = [u \in Users |-> 0]
    /\ livePending = FALSE
    /\ batteryFetch = TRUE
    /\ previousUserLocation = NoLoc
    /\ lastLowBatteryAlertSent = NoTime
    /\ geofenceCooldowns = NoCooldowns
    /\ clientInFlight = NoFlight
    /\ lastEval = NoEval

NextTeardown ==
    \/ Quiet /\ Registry
    \/ Quiet /\ ProfileSnapshot
    \/ Quiet /\ MembersSnapshot
    \/ Quiet /\ GeofencesSnapshot
    \/ LiveDataCheck
    \/ ClientStore
    \/ \E c \in Coordinates : UpdateLocation(c, 1)
    \/ \E s \in Slots : ServerCheckGeofences(s)

SpecTeardown == InitTeardown /\ [][NextTeardown]_vars

\* Every kind of event in both runtimes, one evaluation at a time and all
\* within one tick of the clock, for a subject that starts without a group.
NextAllKinds ==
    \/ Quiet /\ JoinFamily("F1")
    \/ Quiet /\ LeaveFamily
    \/ Quiet /\ ProfileSnapshot
    \/ Quiet /\ MembersSnapshot
    \/ Quiet /\ GeofencesSnapshot
    \/ LiveDataCallback
    \/ \E c \in {d \in Coordinates : d.latitude \in {1, 3}} : UpdateLocation(c, 1)
    \/ InitialBatteryLevel(205, 1)
    \/ \E reading \in {150, 205} : BatteryChange(reading, 1)
    \/ SosPress(NoLoc, 1)
    \/ SosWrite(TRUE, 1)
    \/ \E s \in Slots : ServerCheckGeofences(s)
    \/ \E s \in Slots : ServerCheckLowBattery(s)
    \/ \E s \in Slots : ServerSos(s)

SpecAllKinds == Init /\ [][NextAllKinds]_vars

\* SOS notifications written by both runtimes and read by their recipients.
NextInbox ==
    \/ Quiet /\ Registry
    \/ Quiet /\ ProfileSnapshot
    \/ SosPress(NoLoc, 1)
    \/ \E v \in BOOLEAN : SosWrite(v, 1)
    \/ \E s \in Slots : ServerSos(s)
    \/ \E e \in log : MarkAsRead(e)

SpecInbox == InitDispatch /\ [][NextInbox]_vars

\* ----------------------------------------------------- properties

\* Membership of a fence's disc, by squared distances: the centre is at
\* most the radius away.
InFence(loc, f) ==
    LET dlat == loc.latitude - GeofenceDocs[f].center.latitude
        dlon == loc.longitude - GeofenceDocs[f].center.longitude
    IN dlat * dlat + dlon * dlon <= GeofenceDocs[f].radius * GeofenceDocs[f].radius

\* C1: in either runtime, for every fence an evaluation gets to, an entry is
\* detected exactly when the previous sample is outside the fence and the
\* current one inside, an exit exactly when the previous one is inside and
\* the current one outside, nothing otherwise and never both; a sample at
\* exactly the radius from the centre is inside.
C1_TransitionDetection ==
    lastEval.kind = "geofence" =>
        /\ \A c \in lastEval.detected : c.fence \in lastEval.fences
        /\ \A f \in lastEval.fences :
             LET was == InFence(lastEval.prev, f)
                 is == InFence(lastEval.cur, f)
                 entry == Candidate(f, "geofence_entry") \in lastEval.detected
                 exit == Candidate(f, "geofence_exit") \in lastEval.detected
             IN /\ entry <=> (~was /\ is)
                /\ exit <=> (was /\ ~is)
                /\ ~(entry /\ exit)

\* The map screen detects the exit from Home of a device that was exactly
\* on Home's boundary, after the trigger had detected an entry.
C1_Witness ==
    /\ lastEval.rt = "client"
    /\ Candidate("Home", "geofence_exit") \in lastEval.detected
    /\ lastEval.prev.latitude = 2
    /\ \E e \in log : e.by /= ByClient /\ e.type = "geofence_entry"

\* C2: while no previous sample is known, no entry and no exit is produced,
\* in either runtime: an evaluation whose previous sample is absent detects
\* nothing, and so would either detector on the sample now in liveData.
C2_FirstSample ==
    /\ (lastEval.kind = "geofence" /\ lastEval.prev = NoLoc) => lastEval.detected = {}
    /\ ClientGeoDetected(NoLoc, liveLoc, effect3) = {}
    /\ SrvGeoDetected(NoLoc, liveLoc, familyOf[Subject]) = {}

\* The listener's first callback finds the device inside Home, with fences
\* to check against, and no previous sample.
C2_Witness ==
    /\ lastEval.rt = "client" /\ lastEval.kind = "geofence"
    /\ lastEval.prev = NoLoc
    /\ lastEval.cur.latitude = 1
    /\ effect3.geofences /= {}

\* C3: a low_battery event is produced only on a downward crossing of the
\* threshold: the sample is at or below 20 and the previous one is absent or
\* above 20; while the level stays low nothing fires again, however much
\* time passes.
C3_EdgeTriggered ==
    (lastEval.kind = "battery" /\ lastEval.allowed /= {}) =>
        /\ lastEval.curBat <= LOW_BATTERY_THRESHOLD
        /\ (lastEval.prevBat = NoBat \/ lastEval.prevBat > LOW_BATTERY_THRESHOLD)

\* the cooldown of a kind of event
CooldownOf(type) ==
    IF type = "low_battery" THEN NOTIFICATION_COOLDOWN_MS_lowBattery
    ELSE NOTIFICATION_COOLDOWN_MS_geofence

\* e is about the same subject, kind and fence as the candidate c
SameKey(e, c) ==
    e.triggeringUid = Subject /\ e.type = c.type /\ e.relatedGeofenceId = c.fence

\* e was written by the runtime rt
WrittenBy(e, rt) == (e.by = ByClient) <=> (rt = "client")

\* C4: within one runtime whose evaluations run one at a time, a transition
\* is not dispatched while the log holds an event of that runtime with the
\* same subject, kind and fence younger than five minutes; and a transition
\* at a fence the runtime has no event about is dispatched whatever it
\* holds about other fences.
C4_GeofenceCooldown ==
    [][lastEval'.kind = "geofence" =>
        /\ \A c \in lastEval'.allowed : \A e \in log :
             (WrittenBy(e, lastEval'.rt) /\ SameKey(e, c))
                 => now - e.timestamp >= NOTIFICATION_COOLDOWN_MS_geofence
        /\ \A c \in lastEval'.detected :
             (IF lastEval'.rt = "client"
              THEN geofenceCooldowns[c.fence] = NoTime
              ELSE \A e \in log : e.relatedGeofenceId /= c.fence)
                 => c \in lastEval'.allowed]_vars

\* One evaluation of the map screen holds back a second entry into Home,
\* less than five minutes after the first, and dispatches the exit from Work.
C4_Witness ==
    /\ lastEval.rt = "client"
    /\ Candidate("Home", "geofence_entry") \in lastEval.detected \ lastEval.allowed
    /\ Candidate("Work", "geofence_exit") \in lastEval.allowed
    /\ \E e \in log : /\ e.by = ByClient
                      /\ SameKey(e, Candidate("Home", "geofence_entry"))
                      /\ now - e.timestamp < NOTIFICATION_COOLDOWN_MS_geofence

\* C5: the cooldown is kept per kind: a detected transition is held back
\* only when the log holds an event of the same kind for the same fence no
\* older than the cooldown, never because of the opposite transition at the
\* fence (the alert the device last raised for the fence being in the log).
C5_KindInKey ==
    [][lastEval'.kind = "geofence" =>
        \A c \in lastEval'.detected \ lastEval'.allowed :
            (lastEval'.rt = "client" =>
                \E e \in log : /\ e.by = ByClient
                               /\ e.relatedGeofenceId = c.fence
                               /\ e.timestamp = geofenceCooldowns[c.fence])
            => \E e \in log : /\ SameKey(e, c)
                              /\ now - e.timestamp <= NOTIFICATION_COOLDOWN_MS_geofence]_vars

\* C6: a detected transition whose newest event of the same subject, kind
\* and fence is in the log (for the map screen: written by it, and the alert
\* it last raised for the fence) is held back exactly when that event is
\* younger than the cooldown; at exactly the full cooldown it is dispatched.
C6_CooldownBoundary ==
    [][lastEval'.kind = "geofence" =>
        \A c \in lastEval'.detected :
            LET ts == LatestTs(log, c) IN
            (/\ ts /= NoTime
             /\ lastEval'.rt = "client" =>
                    /\ geofenceCooldowns[c.fence] = ts
                    /\ \E e \in log : e.by = ByClient /\ SameKey(e, c) /\ e.timestamp = ts)
            => (c \notin lastEval'.allowed
                    <=> now - ts < NOTIFICATION_COOLDOWN_MS_geofence)]_vars

\* C7: within one runtime whose evaluations run one at a time, a low_battery
\* event is not dispatched less than fifteen minutes after a low_battery
\* event of that runtime, whatever the level did in between.
C7_BatterySpacing ==
    [][(lastEval'.kind = "battery" /\ lastEval'.allowed /= {}) =>
        \A e \in log :
            (WrittenBy(e, lastEval'.rt) /\ SameKey(e, LowBattery))
                => now - e.timestamp >= NOTIFICATION_COOLDOWN_MS_lowBattery]_vars

\* C8: the cooldown is anchored in the log: no runtime dispatches an event
\* while the log holds an event of the same subject, kind and fence younger
\* than the cooldown that the other runtime wrote.
C8_DurableAnchor ==
    [][lastEval'.kind \in {"battery", "geofence"} =>
        \A c \in lastEval'.allowed : \A e \in log :
            (SameKey(e, c) /\ ~WrittenBy(e, lastEval'.rt))
                => now - e.timestamp >= CooldownOf(c.type)]_vars

\* C9: the cooldown check and the append are not one atomic step: what an
\* invocation sends when its sendAndStoreNotification calls run is what its
\* cooldown query allowed, whatever the log has come to hold since, so two
\* invocations that both queried before either appended both dispatch.
C9_CheckThenAct ==
    [][\A s \in Slots :
        (srvInv[s].st = "gated" /\ srvInv'[s].st = "idle")
            => /\ lastEval'.allowed = srvInv[s].allowed
               /\ \A e \in log' \ log :
                    /\ e.by = ByServer(s) /\ e.timestamp = now
                    /\ Candidate(e.relatedGeofenceId, e.type) \in srvInv[s].allowed]_vars

\* Two invocations of checkLowBattery have each stored a low_battery event
\* for the same recipient, less than one cooldown apart.
C9_Witness ==
    \E e1, e2 \in log :
        /\ e1.by /= ByClient /\ e2.by /= ByClient /\ e1.by /= e2.by
        /\ e1.type = "low_battery" /\ e2.type = "low_battery"
        /\ e1.triggeringUid = e2.triggeringUid
        /\ e1.recipientUid = e2.recipientUid
        /\ e1.timestamp - e2.timestamp < NOTIFICATION_COOLDOWN_MS_lowBattery
        /\ e2.timestamp - e1.timestamp < NOTIFICATION_COOLDOWN_MS_lowBattery

\* C10: given the same samples and the same log, the map screen decides as
\* the trigger does: the low_battery events the screen dispatches for a
\* sample are those checkLowBattery allows for that sample, the sample
\* before it, the subject's group and the log.
C10_Agreement ==
    [][(/\ lastEval'.rt = "client" /\ lastEval'.kind = "battery"
        /\ currentUserProfile.loaded
        /\ currentUserProfile.familyId = familyOf[Subject])
        => lastEval'.allowed =
               SrvBatAllowed(liveBat, liveBat', familyOf[Subject], log, now)]_vars

\* C19: every client evaluation of a location sample uses the geofence set
\* of the most recent geofences snapshot: when checkCurrentUserGeofences
\* has run on two usable samples, the fences it went through are the
\* fences the geofences state holds.
C19_LiveGeofenceSet ==
    (/\ lastEval.rt = "client" /\ lastEval.kind = "geofence"
     /\ lastEval.prev /= NoLoc
     /\ Truthy(lastEval.prev.latitude) /\ Truthy(lastEval.cur.latitude)
     /\ currentUserProfile.familyId /= NoFamily)
        => lastEval.fences = geofences

\* C20: the previous sample the map screen hands to its geofence check is
\* the sample its liveData callback delivered immediately before the
\* current one: a delivery evaluates (cache, delivered sample) and then
\* puts the delivered sample in the cache, so between deliveries the cache
\* holds the last delivered sample, and nothing else writes the cache
\* except the reset when the listeners are torn down.
C20_PreviousSample ==
    /\ []((Subject \in rtdbListeners /\ ~livePending /\ liveLoc /= NoLoc)
            => previousUserLocation = liveLoc)
    /\ [][/\ (lastEval'.rt = "client" /\ lastEval'.kind = "geofence")
                => /\ lastEval'.prev = previousUserLocation
                   /\ lastEval'.cur = liveLoc
                   /\ previousUserLocation' = liveLoc
          /\ previousUserLocation' /= previousUserLocation
                => \/ lastEval'.rt = "client" /\ lastEval'.kind = "geofence"
                   \/ previousUserLocation' = NoLoc /\ rtdbListeners' = {}]_vars

\* a check on two different samples, the earlier one delivered before
C20_Witness ==
    /\ lastEval.rt = "client" /\ lastEval.kind = "geofence"
    /\ lastEval.prev /= NoLoc
    /\ lastEval.prev /= lastEval.cur
    /\ previousUserLocation = lastEval.cur
    /\ lastEval.detected /= {}

\* C18: the scenario of group {A, B} with fence Home, as checkGeofences
\* goes through it: a crossing of Home's boundary by A with no event of
\* the same kind at Home younger than the cooldown creates exactly one
\* event of that kind, to B; a crossing within the cooldown creates none.
C18_EndToEnd ==
    [][(/\ lastEval'.rt = "server" /\ lastEval'.kind = "geofence"
        /\ familyOf[Subject] = "F1" /\ Members("F1") = {Subject, "B"})
         => \A c \in lastEval'.detected :
              c.fence = "Home" =>
                LET created == {e \in log' \ log : SameKey(e, c)} IN
                IF \E e \in log : /\ SameKey(e, c)
                                  /\ now - e.timestamp < NOTIFICATION_COOLDOWN_MS_geofence
                THEN created = {}
                ELSE /\ Cardinality(created) = 1
                     /\ \A e \in created : e.recipientUid = "B"]_vars

\* C11: no notification is ever written whose recipient is the subject that
\* triggered it, whatever the kind and whichever runtime wrote it; a press
\* in a group whose only member is the subject writes nothing.
C11_NoSelfNotification ==
    /\ [](\A e \in log : e.recipientUid /= e.triggeringUid)
    /\ [][(/\ lastEval'.rt = "client" /\ lastEval'.kind = "sos"
           /\ Members(currentUserProfile.familyId) \subseteq {Subject})
             => log' = log]_vars

\* a press in the group the subject is alone in, the log holding an event
\* the server wrote to a member of the other group
C11_Witness ==
    /\ lastEval.rt = "client" /\ lastEval.kind = "sos"
    /\ currentUserProfile.familyId = "F2" /\ Members("F2") = {Subject}
    /\ lastEval.result = "true"
    /\ \E e \in log : e.by /= ByClient /\ e.type \in GeoTypes /\ e.recipientUid = "C"

\* C12: every event the server lets through is recorded once for every
\* other member of the subject's group, whatever became of the push: the
\* step of the handler adds exactly one document per passed event and
\* recipient (events already recorded at this very instant left aside).
C12_DurableFirst ==
    [][(lastEval'.rt = "server" /\ lastEval'.kind \in {"geofence", "battery", "sos"})
         => \A c \in lastEval'.allowed :
              (~\E e \in log : SameKey(e, c) /\ e.timestamp = now)
                => \A r \in Members(familyOf[Subject]) \ {Subject} :
                     Cardinality({e \in log' \ log :
                                    SameKey(e, c) /\ e.recipientUid = r}) = 1]_vars

\* the recipients of the calls of the last fan-out that ended in res
Ended(ev, res) == {p[2] : p \in {q \in DOMAIN ev.outcomes : ev.outcomes[q] = res}}

C14_ReturnValue ==
    [][(/\ lastEval'.rt = "client" /\ lastEval'.kind = "sos"
        /\ lastEval'.result = "true")
         => \A r \in Members(currentUserProfile.familyId) \ {Subject} :
              \E e \in log' : /\ e.type = "sos" /\ e.recipientUid = r
                              /\ e.by = ByClient /\ e.timestamp = now]_vars

\* C17: a rejected reset write is tried again before the handler ends: a
\* handler that saw the trigger true never returns with its reset rejected
\* and the trigger still true.
C17_ResetRetried ==
    (lastEval.rt = "server" /\ lastEval.kind = "sos" /\ Sos \in lastEval.detected)
        => ~(lastEval.reset = "failed" /\ sosActive)

\* C15: sos has no cooldown: every run of onSosActivated that sees the
\* trigger true for a subject with a group makes a sendAndStoreNotification
\* call for every other member, and every press the map screen handles
\* goes to createNotificationsForFamily, whatever the log holds.
C15_SosAlwaysFires ==
    [][/\ (/\ lastEval'.rt = "server" /\ lastEval'.kind = "sos"
           /\ Sos \in lastEval'.detected /\ familyOf[Subject] /= NoFamily)
            => DOMAIN lastEval'.outcomes = {Sos} \X (Members(familyOf[Subject]) \ {Subject})
       /\ (lastEval'.rt = "client" /\ lastEval'.kind = "sos")
            => Sos \in lastEval'.allowed]_vars

\* C16: a run of onSosActivated leaves the trigger false, armed for the
\* next press, and a run started by a write of false (the reset included)
\* dispatches nothing and writes nothing.
C16_SosRearm ==
    [][(lastEval'.rt = "server" /\ lastEval'.kind = "sos")
         => /\ sosActive' = FALSE
            /\ Sos \notin lastEval'.detected
                 => /\ lastEval'.allowed = {} /\ lastEval'.outcomes = <<>>
                    /\ log' = log /\ fcmToken' = fcmToken]_vars

\* C21: the map screen purges its cached last sample when the subject stops
\* being observed: once the screen holds a profile without a group the
\* cache is empty, and once the removal of the subject's location has been
\* delivered to the liveData listener the cache is empty, so the first
\* sample after the gap finds no previous one.
C21_PurgeOnGap ==
    /\ (currentUserProfile.loaded /\ currentUserProfile.familyId = NoFamily)
         => (previousUserLocation = NoLoc /\ rtdbListeners = {})
    /\ (Subject \in rtdbListeners /\ ~livePending /\ liveLoc = NoLoc)
         => previousUserLocation = NoLoc

\* C22: on the map screen every member of the last members snapshot has
\* exactly one liveData subscription and nobody else has any: a
\* subscription is alive exactly for the ids the listener map holds, never
\* two for one id, and a members snapshot leaves the map holding exactly
\* the members of the group.
C22_OneSubscriptionPerMember ==
    /\ [](\A u \in Users : liveSubs[u] = IF u \in rtdbListeners THEN 1 ELSE 0)
    /\ [][(rtdbListeners' /= rtdbListeners /\ effect3' = effect3)
            => rtdbListeners' = Members(effect3.familyId)]_vars

\* the subject, whose listener had delivered a sample, has left the group:
\* the snapshot took its subscription away and B kept the one it had
C22_Witness ==
    /\ effect3.active /\ effect3.familyId = "F1"
    /\ previousUserLocation /= NoLoc
    /\ rtdbListeners = {"B"}
    /\ liveSubs["B"] = 1 /\ liveSubs[Subject] = 0

\* C23: the teardown of the screen's subscriptions releases its state and
\* cancels the work in flight: after a cleanup the listener map is empty
\* and no previous sample is cached until a listener delivers again, and
\* no notification is written by a call that was in flight when the
\* cleanup ran.
C23_TeardownCancels ==
    [][/\ effect3' /= effect3
            => (rtdbListeners' = {} /\ previousUserLocation' = NoLoc)
       /\ clientInFlight.tornDown => log' = log]_vars

\* C24: a subject without a group is never evaluated: a handler of the
\* server that finds no familyId in the subject's profile, and a check of
\* the map screen whose profile has none, lets no event through, makes no
\* sendAndStoreNotification call and writes no notification.
C24_NoGroupNoEvaluation ==
    [][/\ (/\ lastEval'.rt = "server"
           /\ lastEval'.kind \in {"geofence", "battery", "sos"}
           /\ familyOf[Subject] = NoFamily)
            => /\ lastEval'.allowed = {} /\ DOMAIN lastEval'.outcomes = {}
               /\ log' = log /\ fcmToken' = fcmToken
       /\ (lastEval'.rt = "client" /\ currentUserProfile.familyId = NoFamily)
            => (lastEval'.allowed = {} /\ log' = log)]_vars

\* checkLowBattery has seen the level of a subject without a group fall
\* to 15 and nothing was written, the log holding an event from the time
\* the subject had a group
C24_Witness ==
    /\ lastEval.rt = "server" /\ lastEval.kind = "battery"
    /\ lastEval.detected = {LowBattery} /\ lastEval.allowed = {}
    /\ familyOf[Subject] = NoFamily
    /\ lastEval.ledger = {[fence |-> NoFence, type |-> "low_battery", ts |-> NoTime]}
    /\ \E e \in log : e.type = "sos"

\* a notification without its read flag
Core(e) == [f \in DOMAIN e \ {"read"} |-> e[f]]

\* C25: a notification changes only by its read flag going from false to
\* true: every step keeps each document of the log with the fields it had,
\* a read flag that is true stays true, and a document that appears is
\* created unread.
C25_ImmutableButRead ==
    [][/\ \A e \in log : \E e2 \in log' : Core(e2) = Core(e) /\ (e.read => e2.read)
       /\ \A e2 \in log' : (\A e \in log : Core(e) /= Core(e2)) => ~e2.read
       /\ Cardinality({Core(e) : e \in log'}) >= Cardinality({Core(e) : e \in log})]_vars

\* B has read its sos notification, C's is still unread
C25_Witness ==
    /\ \E e \in log : e.recipientUid = "B" /\ e.type = "sos" /\ e.read
    /\ \E e \in log : e.recipientUid = "C" /\ e.type = "sos" /\ ~e.read

\* ------------------------------------------- the geofence edit screen

Digits == {"0", "1", "2", "3", "4", "5", "6", "7", "8", "9"}
DigitVal ==
    ("0" :> 0) @@ ("1" :> 1) @@ ("2" :> 2) @@ ("3" :> 3) @@ ("4" :> 4) @@
    ("5" :> 5) @@ ("6" :> 6) @@ ("7" :> 7) @@ ("8" :> 8) @@ ("9" :> 9)

\* the value of the run of digits of text that starts at position i
RECURSIVE DigitsValue(_, _, _)
DigitsValue(text, i, acc) ==
    IF i > Len(text) \/ text[i] \notin Digits
    THEN acc
    ELSE DigitsValue(text, i + 1, acc * 10 + DigitVal[text[i]])

\* parseInt(text, 10): an optional sign, then digits up to the first
\* character that is not one; NaN when there is no digit
ParseInt(text) ==
    LET neg == Len(text) > 0 /\ text[1] = "-"
        start == IF neg THEN 2 ELSE 1
    IN IF start > Len(text) \/ text[start] \notin Digits
       THEN [nan |-> TRUE, num |-> 0]
       ELSE [nan |-> FALSE, num |-> (IF neg THEN -1 ELSE 1) * DigitsValue(text, start, 0)]

MathMax(a, b) == IF a >= b THEN a ELSE b
MathMin(a, b) == IF a <= b THEN a ELSE b

\* onChangeText of the radius field
RadiusAfterInput(radius, text) ==
    LET p == ParseInt(text)
    IN IF ~p.nan THEN MathMax(MIN_RADIUS, MathMin(MAX_RADIUS, p.num))
       ELSE IF text = NoText THEN 0
       ELSE radius

\* String.prototype.trim
RECURSIVE Trim(_)
Trim(text) ==
    IF text = NoText THEN NoText
    ELSE IF Head(text) = " " THEN Trim(Tail(text))
    ELSE IF text[Len(text)] = " " THEN Trim(SubSeq(text, 1, Len(text) - 1))
    ELSE text

isAdmin_anyone(profile) == TRUE
\* const isAdmin = currentUserProfile?.role === 'admin'
isAdmin(profile) == profile.role = "admin"

isCreating(ed) == ed.geofenceId = NewId

RadiusInRange_any(radius) == TRUE
\* the negation of radius < MIN_RADIUS || radius > MAX_RADIUS
RadiusInRange(radius) == ~(radius < MIN_RADIUS \/ radius > MAX_RADIUS)

\* the early returns of handleSave, none taken
SaveAccepted(ed) ==
    /\ ed.currentUserProfile.familyId /= NoFamily
    /\ isAdmin(ed.currentUserProfile)
    /\ ed.center /= NoLoc
    /\ Trim(ed.name) /= NoText
    /\ RadiusInRange(ed.radius)

\* the radius state holds whole metres (parseInt, or a stored radius), so
\* Math.round leaves it as it is
geofenceDataToSave(ed) ==
    [name |-> Trim(ed.name), radius |-> ed.radius, center |-> ed.center,
     familyId |-> ed.currentUserProfile.familyId]

\* the condition under which setupScreen takes over a stored fence
LoadableDoc(d) ==
    /\ d /= NoDoc
    /\ Truthy(d.center.latitude) /\ Truthy(d.center.longitude)
    /\ d.radius /= -1

\* the fences the list screen shows: where('familyId', '==', familyId)
ListedFences(collection, profile) ==
    {g \in EditIds : collection[g] /= NoDoc /\ profile.familyId /= NoFamily
                     /\ collection[g].familyId = profile.familyId}

FreeIds(collection) == {g \in EditIds : collection[g] = NoDoc}

EditEval(kind, result) == [NoEval EXCEPT !.kind = kind, !.result = result]

RadiusTexts == {NoText, <<"x">>, <<"-", "5">>, <<"2", "0", "0">>, <<"9", "0", "0", "0">>}
\* where a centre is put: one of the places has latitude 0
EditCentres == {c \in Coordinates : c.latitude \in {0, 2}}
NameTexts == {NoText, <<" ">>, <<"D">>, <<" ", "D", " ">>}

\* the route geofences/new; setupScreen puts the centre on the device's
\* position or on the default one
OpenNew(c) ==
    /\ ~editor.open
    /\ editor' = [ClosedEditor(editor.currentUserProfile) EXCEPT !.open = TRUE, !.center = c]
    /\ lastEval' = NoEval
    /\ UNCHANGED <<familyTab, userSettings, signupScreen, authCtx, now, moves, durable, srvInv, client, geofenceCollection>>

\* handleItemPress on a fence of the list, then setupScreen: a fence that
\* cannot be taken over sends the user back
OpenExisting(g) ==
    /\ ~editor.open
    /\ g \in ListedFences(geofenceCollection, editor.currentUserProfile)
    /\ editor' = IF LoadableDoc(geofenceCollection[g])
                 THEN [editor EXCEPT !.open = TRUE, !.geofenceId = g,
                                     !.name = geofenceCollection[g].name,
                                     !.radius = geofenceCollection[g].radius,
                                     !.center = geofenceCollection[g].center]
                 ELSE editor
    /\ lastEval' = NoEval
    /\ UNCHANGED <<familyTab, userSettings, signupScreen, authCtx, now, moves, durable, srvInv, client, geofenceCollection>>

\* the name field, editable={isAdmin}
ChangeName(text) ==
    /\ editor.open /\ isAdmin(editor.currentUserProfile)
    /\ editor' = [editor EXCEPT !.name = text]
    /\ lastEval' = NoEval
    /\ UNCHANGED <<familyTab, userSettings, signupScreen, authCtx, now, moves, durable, srvInv, client, geofenceCollection>>

\* the radius field, editable={isAdmin}
ChangeRadius(text) ==
    /\ editor.open /\ isAdmin(editor.currentUserProfile)
    /\ editor' = [editor EXCEPT !.radius = RadiusAfterInput(editor.radius, text)]
    /\ lastEval' = NoEval
    /\ UNCHANGED <<familyTab, userSettings, signupScreen, authCtx, now, moves, durable, srvInv, client, geofenceCollection>>

handleMapPress(c) ==
    /\ editor.open
    /\ editor' = IF ~isAdmin(editor.currentUserProfile) /\ ~isCreating(editor)
                 THEN editor
                 ELSE [editor EXCEPT !.center = c]
    /\ lastEval' = NoEval
    /\ UNCHANGED <<familyTab, userSettings, signupScreen, authCtx, now, moves, durable, srvInv, client, geofenceCollection>>

\* handleSave: updateDoc on the fence of the route or addDoc under a new id;
\* a write Firestore refuses leaves the screen open
handleSave(ok) ==
    /\ editor.open
    /\ isCreating(editor) => FreeIds(geofenceCollection) /= {}
    /\ IF ~SaveAccepted(editor)
       THEN /\ lastEval' = EditEval("save", "rejected")
            /\ UNCHANGED <<editor, geofenceCollection>>
       ELSE LET g == IF isCreating(editor)
                     THEN CHOOSE f \in FreeIds(geofenceCollection) : TRUE
                     ELSE editor.geofenceId
                done == ok /\ (~isCreating(editor) => geofenceCollection[g] /= NoDoc)
            IN IF done
               THEN /\ geofenceCollection' = [geofenceCollection EXCEPT ![g] = geofenceDataToSave(editor)]
                    /\ editor' = ClosedEditor(editor.currentUserProfile)
                    /\ lastEval' = EditEval("save", "written")
               ELSE /\ lastEval' = EditEval("save", "failed")
                    /\ UNCHANGED <<editor, geofenceCollection>>
    /\ UNCHANGED <<familyTab, userSettings, signupScreen, authCtx, now, moves, durable, srvInv, client>>

\* handleDelete with the deletion confirmed in the alert
handleDelete(ok) ==
    /\ editor.open
    /\ IF ~isAdmin(editor.currentUserProfile) \/ isCreating(editor)
       THEN /\ lastEval' = EditEval("delete", "rejected")
            /\ UNCHANGED <<editor, geofenceCollection>>
       ELSE IF ok
       THEN /\ geofenceCollection' = [geofenceCollection EXCEPT ![editor.geofenceId] = NoDoc]
            /\ editor' = ClosedEditor(editor.currentUserProfile)
            /\ lastEval' = EditEval("delete", "deleted")
       ELSE /\ lastEval' = EditEval("delete", "failed")
            /\ UNCHANGED <<editor, geofenceCollection>>
    /\ UNCHANGED <<familyTab, userSettings, signupScreen, authCtx, now, moves, durable, srvInv, client>>

\* the back button
CloseEditor ==
    /\ editor.open
    /\ editor' = ClosedEditor(editor.currentUserProfile)
    /\ lastEval' = NoEval
    /\ UNCHANGED <<familyTab, userSettings, signupScreen, authCtx, now, moves, durable, srvInv, client, geofenceCollection>>

\* the profiles explore.tsx produces: the creator of a group is its admin,
\* who joins is a member, and a user without a group has no role
EditProfiles ==
    {[role |-> "admin", familyId |-> "F1"], [role |-> "member", familyId |-> "F1"],
     [role |-> "admin", familyId |-> "F2"], NoEditProfile}

InitEditor ==
    /\ now = StartMs
    /\ moves = 0
    /\ familyOf = InitFamilyOf
    /\ fcmToken = {"B"}
    /\ liveLoc = NoLoc
    /\ liveBat = NoBat
    /\ sosActive = FALSE
    /\ log = {}
    /\ srvInv = [s \in Slots |-> IdleInv]
    /\ currentUserProfile = NoProfile
    /\ geofences = {}
    /\ effect3 = NoEffect
    /\ rtdbListeners = {}
    /\ liveSubs = [u \in Users |-> 0]
    /\ livePending = FALSE
    /\ batteryFetch = TRUE
    /\ previousUserLocation = NoLoc
    /\ lastLowBatteryAlertSent = NoTime
    /\ geofenceCooldowns = NoCooldowns
    /\ clientInFlight = NoFlight
    /\ lastEval = NoEval
    /\ \E profile \in EditProfiles : editor = ClosedEditor(profile)
    /\ geofenceCollection = InitCollection
    /\ authCtx = AuthMounted([u \in AuthUids |-> NoUserDoc])
    /\ signupScreen = SignupIdle
    /\ userSettings = SettingsAt(DefaultSettings)
    /\ FamilyTabIdle

NextEditor ==
    \/ \E c \in EditCentres : OpenNew(c)
    \/ \E g \in EditIds : OpenExisting(g)
    \/ \E text \in NameTexts : ChangeName(text)
    \/ \E text \in RadiusTexts : ChangeRadius(text)
    \/ \E c \in EditCentres : handleMapPress(c)
    \/ \E ok \in BOOLEAN : handleSave(ok)
    \/ \E ok \in BOOLEAN : handleDelete(ok)
    \/ CloseEditor

SpecEditor == InitEditor /\ [][NextEditor]_vars

\* what C26 asks of a stored fence
WellFormedFence(d) ==
    /\ 50 <= d.radius /\ d.radius <= 5000
    /\ d.name /= NoText /\ Head(d.name) /= " " /\ d.name[Len(d.name)] /= " "
    /\ d.center \in Coordinates

\* C26: every geofence document a save writes has a radius between 50 and
\* 5000, a non-empty trimmed name and a centre; a save pressed with a radius
\* outside the range, a blank name or no centre leaves the collection as it is.
C26_SaveValidated ==
    [][/\ \A g \in EditIds :
            (geofenceCollection'[g] /= geofenceCollection[g] /\ geofenceCollection'[g] /= NoDoc)
                => WellFormedFence(geofenceCollection'[g])
       /\ (/\ lastEval'.kind = "save"
           /\ \/ editor.radius < 50 \/ editor.radius > 5000
              \/ Trim(editor.name) = NoText
              \/ editor.center = NoLoc)
          => geofenceCollection' = geofenceCollection]_vars

\* a fence created from padded text and an out-of-range radius entry
C26_Witness ==
    /\ lastEval.kind = "save" /\ lastEval.result = "written"
    /\ geofenceCollection["g3"] /= NoDoc
    /\ geofenceCollection["g3"].name = <<"D">>
    /\ geofenceCollection["g3"].radius = 5000

WellFormedIds == {f \in FenceIds : GeofenceDocs[f].center /= NoLoc /\ GeofenceDocs[f].radius /= -1}

\* C28: a fence without a centre coordinate or radius is skipped and changes
\* nothing for the others: an invocation of checkGeofences that gets to its
\* loop evaluates exactly the well-formed fences of the subject's group,
\* detects for each of them what the two samples give, and runs to its end;
\* the map screen keeps no such fence and evaluates none.
C28_MalformedSkipped ==
    /\ (lastEval.kind = "geofence" /\ lastEval.rt = "server"
        /\ lastEval.prev.latitude > 0 /\ lastEval.cur.latitude > 0
        /\ familyOf[Subject] /= NoFamily)
       => /\ lastEval.fences = {f \in WellFormedIds : GeofenceDocs[f].familyId = familyOf[Subject]}
          /\ \A f \in lastEval.fences :
               (InFence(lastEval.prev, f) /= InFence(lastEval.cur, f))
                   <=> (\E c \in lastEval.detected : c.fence = f)
          /\ \A s \in Slots : srvInv[s].st /= "triggered" \/ srvInv[s].newLocation /= lastEval.cur
    /\ geofences \subseteq WellFormedIds
    /\ (lastEval.kind = "geofence" /\ lastEval.rt = "client") => lastEval.fences \subseteq WellFormedIds

\* an invocation for a subject of Shed's group got to Home and Work: it
\* detected the exit from Home and the entry into Work of one move
C28_Witness ==
    /\ lastEval.kind = "geofence" /\ lastEval.rt = "server"
    /\ familyOf[Subject] = GeofenceDocs["Shed"].familyId
    /\ "Shed" \notin WellFormedIds
    /\ lastEval.fences = {"Home", "Work"}
    /\ Candidate("Home", "geofence_exit") \in lastEval.detected
    /\ Candidate("Work", "geofence_entry") \in lastEval.detected

\* C29: a rejected write of a notification document is made once more, and
\* only once more, before the failure is reported: no document of a press has
\* a single rejected addDoc as all its attempts, and none has more than two.
C29_AppendRetried ==
    (lastEval.rt = "client" /\ lastEval.kind = "sos")
        => \A q \in DOMAIN lastEval.outcomes :
             /\ Len(lastEval.outcomes[q]) <= 2
             /\ lastEval.outcomes[q][1] = "failed" => Len(lastEval.outcomes[q]) = 2

\* ------------------------------------------------------- AuthProvider

isAuthenticated_strict(ctx) == ctx.user /= NoUser /\ ctx.currentUserProfile /= NoAuthProfile
\* const isAuthenticated = !!user
isAuthenticated(ctx) == ctx.user /= NoUser

\* the profile the listener builds from a snapshot: { id: docSnap.id,
\* ...docSnap.data() } when the document exists, null when it does not
SnapshotProfile(uid, d) ==
    IF d.exists THEN [id |-> uid, familyId |-> d.familyId] ELSE NoAuthProfile

AuthEval(kind, uid) == [NoEval EXCEPT !.kind = kind, !.result = uid]

\* the onAuthStateChanged callback: currentUser is u, or nobody; it is called
\* once when the listener is registered and then on every sign-in and
\* sign-out, the first time after the effect of the mount has registered it.
\* The profile effect is due when the user state changed.
AuthCleared_nothing(ctx) == ctx
\* if (!currentUser) { setCurrentUserProfile(null); setLoadingAuth(false); }
AuthCleared(ctx) == [ctx EXCEPT !.currentUserProfile = NoAuthProfile, !.loadingAuth = FALSE]

AuthStateChanged(u) ==
    /\ authCtx.authChecked \/ ~authCtx.effectDue
    /\ u = authCtx.session
    /\ u /= authCtx.user \/ ~authCtx.authChecked
    /\ authCtx' = IF u = NoUser
                  THEN [AuthCleared(authCtx) EXCEPT
                                       !.user = u, !.authChecked = TRUE,
                                       !.effectDue = (authCtx.effectDue \/ u /= authCtx.user)]
                  ELSE [authCtx EXCEPT !.user = u, !.authChecked = TRUE, !.effectDue = TRUE]
    /\ lastEval' = AuthEval("authState", u)
    /\ UNCHANGED <<familyTab, userSettings, signupScreen, now, moves, durable, srvInv, client, geofenceEdit>>

\* the profile effect, run after the first render and after every render
\* that follows a change of user:
\* the previous listener is cancelled and one for the new user is set up
ProfileEffect ==
    /\ authCtx.effectDue
    /\ authCtx' = IF authCtx.user /= NoUser
                  THEN [authCtx EXCEPT !.currentUserProfile = NoAuthProfile, !.loadingAuth = TRUE,
                                       !.profileListener = authCtx.user, !.effectDue = FALSE]
                  ELSE [authCtx EXCEPT !.currentUserProfile = NoAuthProfile, !.loadingAuth = FALSE,
                                       !.profileListener = NoUser, !.effectDue = FALSE]
    /\ lastEval' = NoEval
    /\ UNCHANGED <<familyTab, userSettings, signupScreen, now, moves, durable, srvInv, client, geofenceEdit>>

\* the onSnapshot callback of the profile listener. React runs a due effect
\* before the next render, so what a callback sets while the effect is due
\* is overwritten by the effect before it is rendered: such a callback is
\* left out.
ProfileListenerSnapshot ==
    /\ authCtx.profileListener /= NoUser /\ ~authCtx.effectDue
    /\ authCtx' = [authCtx EXCEPT
                     !.currentUserProfile =
                        SnapshotProfile(authCtx.profileListener, authCtx.docs[authCtx.profileListener]),
                     !.loadingAuth = FALSE]
    /\ lastEval' = AuthEval("profileSnapshot", authCtx.profileListener)
    /\ UNCHANGED <<familyTab, userSettings, signupScreen, now, moves, durable, srvInv, client, geofenceEdit>>

\* the error callback of the profile listener
ProfileListenerError ==
    /\ authCtx.profileListener /= NoUser /\ ~authCtx.effectDue
    /\ authCtx' = [authCtx EXCEPT !.currentUserProfile = NoAuthProfile, !.loadingAuth = FALSE]
    /\ lastEval' = AuthEval("profileError", authCtx.profileListener)
    /\ UNCHANGED <<familyTab, userSettings, signupScreen, now, moves, durable, srvInv, client, geofenceEdit>>

\* login: signInWithEmailAndPassword resolves (ok) or rejects, and a
\* rejection is thrown on to the screen
login(u, ok) ==
    /\ authCtx.user = NoUser
    /\ authCtx' = IF ok THEN [authCtx EXCEPT !.session = u] ELSE authCtx
    /\ lastEval' = AuthEval("login", IF ok THEN "resolved" ELSE "signInRejected")
    /\ UNCHANGED <<familyTab, userSettings, signupScreen, now, moves, durable, srvInv, client, geofenceEdit>>

\* What signup leaves: a rejected createUserWithEmailAndPassword goes to the
\* catch before setDoc is reached; a created account is signed in, and its
\* user document is there when setDoc went through.

SignedUp_docAnyway(ctx, u, created, docOk) ==
    [ctx EXCEPT !.session = IF created THEN u ELSE ctx.session,
                !.docs[u] = [exists |-> TRUE, familyId |-> NoFamily]]
\* signup up to its return or throw
SignedUp(ctx, u, created, docOk) ==
    IF ~created THEN ctx
    ELSE IF ~docOk THEN [ctx EXCEPT !.session = u]
    ELSE [ctx EXCEPT !.session = u, !.docs[u] = [exists |-> TRUE, familyId |-> NoFamily]]

\* signup: the account, then the user document
signup(u, created, docOk) ==
    /\ authCtx.user = NoUser
    /\ ~authCtx.docs[u].exists
    /\ authCtx' = SignedUp(authCtx, u, created, docOk)
    /\ lastEval' = AuthEval("signup", IF ~created THEN "createUserRejected"
                                      ELSE IF ~docOk THEN "setDocRejected"
                                      ELSE "resolved")
    /\ UNCHANGED <<familyTab, userSettings, signupScreen, now, moves, durable, srvInv, client, geofenceEdit>>

\* logout: signOut resolves or rejects
logout(ok) ==
    /\ authCtx.user /= NoUser
    /\ authCtx' = IF ok THEN [authCtx EXCEPT !.session = NoUser] ELSE authCtx
    /\ lastEval' = AuthEval("logout", IF ok THEN "resolved" ELSE "signOutRejected")
    /\ UNCHANGED <<familyTab, userSettings, signupScreen, now, moves, durable, srvInv, client, geofenceEdit>>

\* explore.tsx: the user creates or joins a family
UserDocFamily(u, fam) ==
    /\ authCtx.docs[u].exists /\ authCtx.docs[u].familyId = NoFamily
    /\ authCtx' = [authCtx EXCEPT !.docs[u].familyId = fam]
    /\ lastEval' = NoEval
    /\ UNCHANGED <<familyTab, userSettings, signupScreen, now, moves, durable, srvInv, client, geofenceEdit>>

InitAuth ==
    /\ now = StartMs
    /\ moves = 0
    /\ familyOf = InitFamilyOf
    /\ fcmToken = {"B"}
    /\ liveLoc = NoLoc
    /\ liveBat = NoBat
    /\ sosActive = FALSE
    /\ log = {}
    /\ srvInv = [s \in Slots |-> IdleInv]
    /\ currentUserProfile = NoProfile
    /\ geofences = {}
    /\ effect3 = NoEffect
    /\ rtdbListeners = {}
    /\ liveSubs = [u \in Users |-> 0]
    /\ livePending = FALSE
    /\ batteryFetch = TRUE
    /\ previousUserLocation = NoLoc
    /\ lastLowBatteryAlertSent = NoTime
    /\ geofenceCooldowns = NoCooldowns
    /\ clientInFlight = NoFlight
    /\ lastEval = NoEval
    /\ editor = ClosedEditor(NoEditProfile)
    /\ geofenceCollection = InitCollection
    /\ signupScreen = SignupIdle
    /\ userSettings = SettingsAt(DefaultSettings)
    /\ FamilyTabIdle
    /\ \E sess \in AuthUids \cup {NoUser}, had \in BOOLEAN :
         authCtx = [AuthMounted([u \in AuthUids |->
                                    IF u = sess /\ had
                                    THEN [exists |-> TRUE, familyId |-> NoFamily]
                                    ELSE NoUserDoc])
                    EXCEPT !.session = sess]

NextAuth ==
    \/ \E u \in AuthUids \cup {NoUser} : AuthStateChanged(u)
    \/ ProfileEffect
    \/ ProfileListenerSnapshot
    \/ ProfileListenerError
    \/ \E u \in AuthUids, ok \in BOOLEAN : login(u, ok)
    \/ \E u \in AuthUids, created \in BOOLEAN, docOk \in BOOLEAN : signup(u, created, docOk)
    \/ \E ok \in BOOLEAN : logout(ok)
    \/ \E u \in AuthUids, fam \in Families : UserDocFamily(u, fam)

SpecAuth == InitAuth /\ [][NextAuth]_vars

\* C30: when the profile listener delivers a snapshot for the user the auth
\* listener last reported, loadingAuth is false and isAuthenticated true after
\* it, and currentUserProfile is the profile with that user's uid as id when
\* the document exists and null when it does not.
C30_LoginFlow ==
    [][(lastEval'.kind = "profileSnapshot" /\ authCtx.user = lastEval'.result)
         => /\ ~authCtx'.loadingAuth
            /\ isAuthenticated(authCtx')
            /\ IF authCtx.docs[authCtx.user].exists
               THEN /\ authCtx'.currentUserProfile.id = authCtx.user
                    /\ authCtx'.currentUserProfile.familyId = authCtx.docs[authCtx.user].familyId
               ELSE authCtx'.currentUserProfile = NoAuthProfile]_vars

\* a signed-in user without a document: the snapshot came, the provider
\* stopped loading, the profile is null and the user is authenticated
C30_Witness ==
    /\ lastEval.kind = "profileSnapshot" /\ lastEval.result = "A"
    /\ authCtx.user = "A" /\ ~authCtx.docs["A"].exists
    /\ authCtx.currentUserProfile = NoAuthProfile
    /\ ~authCtx.loadingAuth /\ isAuthenticated(authCtx)

C32_FailedAuth ==
    [][((lastEval'.kind = "login" /\ lastEval'.result = "signInRejected")
        \/ (lastEval'.kind = "signup" /\ lastEval'.result = "createUserRejected"))
         => /\ authCtx'.user = NoUser /\ authCtx'.currentUserProfile = NoAuthProfile
            /\ authCtx'.session = authCtx.session
            /\ authCtx'.docs = authCtx.docs
            /\ lastEval'.result /= "resolved"]_vars

\* the signup of A was rejected at the account: A has no document and nobody
\* is signed in
C32_Witness ==
    /\ lastEval.kind = "signup" /\ lastEval.result = "createUserRejected"
    /\ authCtx.user = NoUser /\ authCtx.session = NoUser
    /\ authCtx.currentUserProfile = NoAuthProfile
    /\ \A u \in AuthUids : ~authCtx.docs[u].exists

\* C37: the children are rendered only after the initial auth check: as
\* long as onAuthStateChanged has not called back, loadingAuth is true.
C37_RenderGate == ~authCtx.authChecked => authCtx.loadingAuth

\* ------------------------------------------------------- SignupScreen

SignupEmails == {NoText, <<" ">>, <<"a">>}
SignupPasswords ==
    {NoText, <<" ">>, <<"1", "2", "3", "4", "5">>, <<"1", "2", "3", "4", "5", "6">>,
     <<" ", " ", " ", " ", " ", " ">>, <<"s", "e", "c", "r", "e", "t">>}

\* the account an address belongs to
EmailUid(email) == IF email = <<"a">> THEN "A" ELSE "B"

SignupError_noLength(scr) ==
    IF Trim(scr.email) = NoText \/ Trim(scr.password) = NoText \/ Trim(scr.confirmPassword) = NoText
    THEN "Please fill in all fields."
    ELSE IF scr.password /= scr.confirmPassword THEN "Passwords do not match."
    ELSE "none"
\* the validation of handleSignup: the message it sets, none when it goes on
SignupError(scr) ==
    IF Trim(scr.email) = NoText \/ Trim(scr.password) = NoText \/ Trim(scr.confirmPassword) = NoText
    THEN "Please fill in all fields."
    ELSE IF scr.password /= scr.confirmPassword THEN "Passwords do not match."
    ELSE IF Len(scr.password) < 6 THEN "Password should be at least 6 characters long."
    ELSE "none"

\* onChangeText of the three fields
SetEmail(text) ==
    /\ signupScreen' = [signupScreen EXCEPT !.email = text, !.error = "none"]
    /\ lastEval' = NoEval
    /\ UNCHANGED <<familyTab, userSettings, authCtx, now, moves, durable, srvInv, client, geofenceEdit>>

SetPassword(text) ==
    /\ signupScreen' = [signupScreen EXCEPT !.password = text, !.error = "none"]
    /\ lastEval' = NoEval
    /\ UNCHANGED <<familyTab, userSettings, authCtx, now, moves, durable, srvInv, client, geofenceEdit>>

SetConfirmPassword(text) ==
    /\ signupScreen' = [signupScreen EXCEPT !.confirmPassword = text, !.error = "none"]
    /\ lastEval' = NoEval
    /\ UNCHANGED <<familyTab, userSettings, authCtx, now, moves, durable, srvInv, client, geofenceEdit>>

\* handleSignup up to its return or to the call of signup; the button is
\* disabled while isLoading
handleSignup ==
    /\ ~signupScreen.isLoading
    /\ signupScreen' = IF SignupError(signupScreen) /= "none"
                       THEN [signupScreen EXCEPT !.error = SignupError(signupScreen)]
                       ELSE [signupScreen EXCEPT !.error = "none", !.isLoading = TRUE,
                                                 !.inFlight = TRUE]
    /\ lastEval' = AuthEval("handleSignup",
                            IF SignupError(signupScreen) /= "none" THEN "refused" ELSE "called")
    /\ UNCHANGED <<familyTab, userSettings, authCtx, now, moves, durable, srvInv, client, geofenceEdit>>

\* the signup call settles: the catch sets the message, the finally ends
\* the loading
SignupSettled(created, docOk) ==
    LET u == EmailUid(signupScreen.email) IN
    /\ signupScreen.inFlight
    /\ created => ~authCtx.docs[u].exists
    /\ authCtx' = SignedUp(authCtx, u, created, docOk)
    /\ signupScreen' = [signupScreen EXCEPT
                          !.inFlight = FALSE, !.isLoading = FALSE,
                          !.error = IF created /\ docOk THEN "none" ELSE "Signup failed."]
    /\ lastEval' = AuthEval("signup", IF ~created THEN "createUserRejected"
                                      ELSE IF ~docOk THEN "setDocRejected"
                                      ELSE "resolved")
    /\ UNCHANGED <<familyTab, userSettings, now, moves, durable, srvInv, client, geofenceEdit>>

InitSignup ==
    /\ now = StartMs
    /\ moves = 0
    /\ familyOf = InitFamilyOf
    /\ fcmToken = {"B"}
    /\ liveLoc = NoLoc
    /\ liveBat = NoBat
    /\ sosActive = FALSE
    /\ log = {}
    /\ srvInv = [s \in Slots |-> IdleInv]
    /\ currentUserProfile = NoProfile
    /\ geofences = {}
    /\ effect3 = NoEffect
    /\ rtdbListeners = {}
    /\ liveSubs = [u \in Users |-> 0]
    /\ livePending = FALSE
    /\ batteryFetch = TRUE
    /\ previousUserLocation = NoLoc
    /\ lastLowBatteryAlertSent = NoTime
    /\ geofenceCooldowns = NoCooldowns
    /\ clientInFlight = NoFlight
    /\ lastEval = NoEval
    /\ editor = ClosedEditor(NoEditProfile)
    /\ geofenceCollection = InitCollection
    /\ authCtx = AuthMounted([u \in AuthUids |-> NoUserDoc])
    /\ signupScreen = SignupIdle
    /\ userSettings = SettingsAt(DefaultSettings)
    /\ FamilyTabIdle

NextSignup ==
    \/ \E text \in SignupEmails : SetEmail(text)
    \/ \E text \in SignupPasswords : SetPassword(text)
    \/ \E text \in SignupPasswords : SetConfirmPassword(text)
    \/ handleSignup
    \/ \E created \in BOOLEAN, docOk \in BOOLEAN : SignupSettled(created, docOk)

SpecSignup == InitSignup /\ [][NextSignup]_vars

\* a text with a character that is not a space
NonBlank(text) == \E i \in 1..Len(text) : text[i] /= " "

\* C33: handleSignup calls signup exactly when the three fields are
\* non-blank, the password equals the confirmation and has at least 6
\* characters; otherwise nothing is called and a message is shown with
\* isLoading false; and when the call settles, resolved or rejected,
\* isLoading is false.
C33_SignupValidation ==
    [][/\ lastEval'.kind = "handleSignup"
            => LET ok == /\ NonBlank(signupScreen.email) /\ NonBlank(signupScreen.password)
                         /\ NonBlank(signupScreen.confirmPassword)
                         /\ signupScreen.password = signupScreen.confirmPassword
                         /\ Len(signupScreen.password) >= 6
               IN /\ signupScreen'.inFlight <=> ok
                  /\ ~ok => (signupScreen'.error /= "none" /\ ~signupScreen'.isLoading
                             /\ authCtx' = authCtx)
       /\ lastEval'.kind = "signup" => ~signupScreen'.isLoading
       /\ signupScreen'.isLoading => signupScreen'.inFlight]_vars

\* a five-character password, repeated correctly, was refused
C33_Witness ==
    /\ lastEval.kind = "handleSignup" /\ lastEval.result = "refused"
    /\ signupScreen.email = <<"a">>
    /\ Len(signupScreen.password) = 5 /\ signupScreen.confirmPassword = signupScreen.password
    /\ signupScreen.error /= "none" /\ ~signupScreen.isLoading /\ ~signupScreen.inFlight

\* C34: a coordinate that is the number 0 is a coordinate: an invocation of
\* checkGeofences whose two samples are both present detects, for every
\* well-formed fence of the subject's group, the event the two samples give,
\* wherever the samples lie.
C34_ZeroIsValid ==
    (/\ lastEval.kind = "geofence" /\ lastEval.rt = "server"
     /\ lastEval.prev /= NoLoc /\ lastEval.cur /= NoLoc
     /\ familyOf[Subject] /= NoFamily)
        => \A f \in WellFormedIds :
             (/\ GeofenceDocs[f].familyId = familyOf[Subject]
              /\ InFence(lastEval.prev, f) /= InFence(lastEval.cur, f))
                 => \E c \in lastEval.detected : c.fence = f


\* ------------------------------------------------ the settings switches

\* The subject is a member of F1 and opens the map screen.  The document's
\* settings are as an earlier session left them.
InitSettings ==
    /\ now = StartMs
    /\ signupScreen = SignupIdle
    /\ authCtx = AuthMounted([u \in AuthUids |-> NoUserDoc])
    /\ editor = ClosedEditor(NoEditProfile)
    /\ geofenceCollection = InitCollection
    /\ FamilyTabIdle
    /\ \E share \in BOOLEAN, alerts \in BOOLEAN :
         userSettings = SettingsAt([shareLocation |-> share, batteryAlerts |-> alerts])
    /\ moves = 0
    /\ familyOf = [InitFamilyOf EXCEPT ![Subject] = "F1"]
    /\ fcmToken = {"B"}
    /\ liveLoc = NoLoc
    /\ liveBat = NoBat
    /\ sosActive = FALSE
    /\ log = {}
    /\ srvInv = [s \in Slots |-> IdleInv]
    /\ currentUserProfile = NoProfile
    /\ geofences = {}
    /\ effect3 = NoEffect
    /\ rtdbListeners = {}
    /\ liveSubs = [u \in Users |-> 0]
    /\ livePending = FALSE
    /\ batteryFetch = TRUE
    /\ previousUserLocation = NoLoc
    /\ lastLowBatteryAlertSent = NoTime
    /\ geofenceCooldowns = NoCooldowns
    /\ clientInFlight = NoFlight
    /\ lastEval = NoEval

SettingsCoordinates == {c \in Coordinates : c.latitude \in {1, 3}}

NextSettings ==
    \/ Quiet /\ ProfileSnapshot
    \/ Quiet /\ SettingsSnapshot
    \/ Quiet /\ \E ok \in BOOLEAN : toggleLocationSharing(ok)
    \/ Quiet /\ \E ok \in BOOLEAN : toggleBatteryAlerts(ok)
    \/ \E c \in SettingsCoordinates : UpdateLocation(c, 1)
    \/ \E reading \in {150, 205} : InitialBatteryLevel(reading, 1)
    \/ \E reading \in {150, 205} : BatteryChange(reading, 1)
    \/ \E s \in Slots : ServerCheckLowBattery(s)
    \/ \E s \in Slots : ServerCheckGeofences(s)

SpecSettings == InitSettings /\ [][NextSettings]_vars

\* C35: while the subject's settings.batteryAlerts is false (in the document,
\* and in the snapshot of it the map screen has received), no low_battery
\* notification with the subject as triggeringUid is added to the
\* notifications collection, by the battery listener of the map screen or by
\* checkLowBattery.
C35_BatteryAlertsHonoured ==
    [][\A e \in log' \ log :
          (e.type = "low_battery" /\ e.triggeringUid = Subject)
              => (userSettings.doc.batteryAlerts \/ userSettings.profile.batteryAlerts)]_vars

\* C36: while settings.shareLocation is false the live location of the
\* subject is absent: the periodic update writes no sample, so what
\* toggleLocationSharing removed stays removed.
C36_NoSampleWhileOff ==
    ~userSettings.doc.shareLocation => liveLoc = NoLoc


\* ------------------------------------------------ the family screen

\* helpers.ts generateInviteCode draws each character from a 32-character
\* alphabet of capitals and digits; two of them, and codes of CodeLength
\* characters for the 6 of the call in handleCreateFamily
CodeChars == {"A", "B"}
CodeLength == 1

\* generateInviteCode(length): every character is Math.random()'s choice
RECURSIVE generateInviteCode(_)
generateInviteCode(length) ==
    IF length = 0 THEN {NoText}
    ELSE {Append(result, ch) : result \in generateInviteCode(length - 1), ch \in CodeChars}

UpperChar(ch) == CASE ch = "a" -> "A" [] ch = "b" -> "B" [] OTHER -> ch
\* String.prototype.toUpperCase
ToUpperCase(text) == [i \in 1..Len(text) |-> UpperChar(text[i])]

\* what the user types into the invite code field
JoinInputs == {NoText, <<" ">>, <<"a">>, <<" ", "B", " ">>}

FamilyEval(kind, attempts) ==
    [NoEval EXCEPT !.kind = kind, !.outcomes = attempts, !.result = attempts[Len(attempts)]]

\* the effect of FamilyScreen for a signed-in user: the profile listener is
\* subscribed and Firestore calls it with the current document
ExploreMount ==
    /\ ~familyScreen.mounted
    /\ familyScreen' = [FamilyScreenIdle EXCEPT !.mounted = TRUE, !.listening = TRUE,
                                                !.pending = TRUE]
    /\ lastEval' = NoEval
    /\ UNCHANGED <<familyStore, userSettings, signupScreen, authCtx, now, moves, durable, srvInv,
                   client, geofenceEdit>>

\* cleanupListeners, returned by the effect: every listener is unsubscribed
\* and every ref set to null
cleanupListeners(scr) ==
    [scr EXCEPT !.listening = FALSE, !.pending = FALSE,
                !.familyDocListener = NullRef, !.firestoreListener = NullRef]

ExploreUnmount ==
    /\ familyScreen.mounted
    /\ familyScreen' = [cleanupListeners(familyScreen) EXCEPT
                          !.mounted = FALSE, !.currentUserProfile = NullFamilyProfile]
    /\ lastEval' = NoEval
    /\ UNCHANGED <<familyStore, userSettings, signupScreen, authCtx, now, moves, durable, srvInv,
                   client, geofenceEdit>>

\* familyDocListener.current?.() / firestoreListener.current?.() at the top
\* of the profile snapshot handler: the listener is unsubscribed, the ref
\* keeps the function
Unsubscribed(ref) == [ref EXCEPT !.live = FALSE]

\* setupFamilyDetailsListener: if (familyDocListener.current) return
setupFamilyDetailsListener(ref, familyId) ==
    IF ref.current /= NoFamily THEN ref ELSE [current |-> familyId, live |-> TRUE]

\* setupFamilyListeners: if (firestoreListener.current) return
setupFamilyListeners(ref, familyId) ==
    IF ref.current /= NoFamily THEN ref ELSE [current |-> familyId, live |-> TRUE]

\* the onSnapshot callback of the profile listener, for the document of the
\* signed-in user as it is now
ExploreProfileSnapshot ==
    LET currentFamilyId == familyStore.users[Subject].familyId
        hasFamily == currentFamilyId /= NoFamily
    IN
    /\ familyScreen.listening /\ familyScreen.pending
    /\ familyScreen' =
         [familyScreen EXCEPT
            !.pending = FALSE,
            !.currentUserProfile = [null |-> FALSE, familyId |-> currentFamilyId],
            !.familyDocListener =
               IF hasFamily THEN setupFamilyDetailsListener(Unsubscribed(@), currentFamilyId)
               ELSE Unsubscribed(@),
            !.firestoreListener =
               IF hasFamily THEN setupFamilyListeners(Unsubscribed(@), currentFamilyId)
               ELSE Unsubscribed(@)]
    /\ lastEval' = [NoEval EXCEPT !.kind = "profileSnapshot"]
    /\ UNCHANGED <<familyStore, userSettings, signupScreen, authCtx, now, moves, durable, srvInv,
                   client, geofenceEdit>>

\* the error callback of the profile listener
ExploreProfileError ==
    /\ familyScreen.listening
    /\ familyScreen' = [cleanupListeners(familyScreen) EXCEPT
                          !.currentUserProfile = NullFamilyProfile]
    /\ lastEval' = NoEval
    /\ UNCHANGED <<familyStore, userSettings, signupScreen, authCtx, now, moves, durable, srvInv,
                   client, geofenceEdit>>

\* Device 1 is the phone whose family screen is modelled, signed in as the
\* subject; device 2 is another phone, signed in as any user.
DeviceUsers(d) == IF d = 1 THEN {Subject} ELSE FamilyUsers
\* if (!user || !currentUserProfile) return
ProfileLoadedOn(d) == d = 1 => (familyScreen.mounted /\ ~familyScreen.currentUserProfile.null)

\* handleCreateFamily up to runTransaction: the code is generated before the
\* transaction and nothing is looked up
handleCreateFamily(d, u, inviteCode) ==
    /\ familyStore.ops[d] = NoOp
    /\ ProfileLoadedOn(d)
    /\ familyStore' = [familyStore EXCEPT !.ops[d] =
                         [NoOp EXCEPT !.kind = "create", !.user = u, !.stage = "started",
                                      !.inviteCode = inviteCode, !.attempts = <<>>]]
    /\ lastEval' = NoEval
    /\ UNCHANGED <<familyScreen, userSettings, signupScreen, authCtx, now, moves, durable, srvInv,
                   client, geofenceEdit>>

\* query(collection(firestore, "families"), where("inviteCode", "==", codeToJoin))
FamiliesWithCode(store, codeToJoin) ==
    {f \in FamilyDocIds : store.families[f].exists /\ store.families[f].inviteCode = codeToJoin}

\* handleJoinFamily up to runTransaction: the input is trimmed and put in
\* capitals, and limit(1) takes one of the families that carry the code
handleJoinFamily(d, u, familyCodeInput) ==
    LET codeToJoin == ToUpperCase(Trim(familyCodeInput))
        found == FamiliesWithCode(familyStore, codeToJoin)
    IN
    /\ familyStore.ops[d] = NoOp
    /\ d = 1 => familyScreen.mounted
    /\ IF familyCodeInput = NoText \/ codeToJoin = NoText
       THEN /\ lastEval' = FamilyEval("join", <<"Input Needed">>)
            /\ UNCHANGED familyStore
       ELSE IF found = {}
       THEN /\ lastEval' = FamilyEval("join", <<"Invalid Code">>)
            /\ UNCHANGED familyStore
       ELSE /\ lastEval' = NoEval
            /\ \E familyId \in found :
                 familyStore' = [familyStore EXCEPT !.ops[d] =
                                   [NoOp EXCEPT !.kind = "join", !.user = u, !.stage = "started",
                                                !.inviteCode = codeToJoin, !.familyId = familyId,
                                                !.attempts = <<>>]]
    /\ UNCHANGED <<familyScreen, userSettings, signupScreen, authCtx, now, moves, durable, srvInv,
                   client, geofenceEdit>>

\* The callback of runTransaction up to its check: transaction.get(userDocRef)
\* and, when the document has a familyId, the throw that ends the handler.
TransactionGet(d) ==
    LET op == familyStore.ops[d]
        userSnap == familyStore.users[op.user]
    IN
    /\ op.stage = "started"
    /\ IF userSnap.familyId /= NoFamily
       THEN /\ familyStore' = [familyStore EXCEPT !.ops[d] = NoOp]
            /\ lastEval' = FamilyEval(op.kind, Append(op.attempts, "User is already in a family."))
       ELSE /\ familyStore' = [familyStore EXCEPT !.ops[d].stage = "read",
                                                  !.ops[d].userSnap = userSnap]
            /\ lastEval' = NoEval
    /\ UNCHANGED <<familyScreen, userSettings, signupScreen, authCtx, now, moves, durable, srvInv,
                   client, geofenceEdit>>

TransactionValid_unchecked(store, op) == TRUE
\* Firestore commits a transaction only if the documents it read have not changed since
TransactionValid(store, op) == store.users[op.user] = op.userSnap

\* transaction.set(newFamilyDocRef, {...}); transaction.update(userDocRef, {...})
CreateWrites(store, op, newFamilyId) ==
    [store EXCEPT
       !.families[newFamilyId] = [exists |-> TRUE, inviteCode |-> op.inviteCode,
                                  adminId |-> op.user, members |-> {op.user}],
       !.users[op.user] = [familyId |-> newFamilyId, role |-> "admin"]]

\* transaction.update(userDocRef, {...}); transaction.update(familyDocRef, {...})
JoinWrites(store, op) ==
    [store EXCEPT
       !.users[op.user] = [familyId |-> op.familyId, role |-> "member"],
       !.families[op.familyId].members = @ \cup {op.user}]

\* doc(familyCollRef): an id no document has
NewFamilyIds(store) == {f \in FamilyDocIds : ~store.families[f].exists}

\* The rest of the callback and the commit.  A commit that finds the user
\* document changed writes nothing and runs the callback again.
TransactionCommit(d) ==
    LET op == familyStore.ops[d] IN
    /\ op.stage = "read"
    /\ IF TransactionValid(familyStore, op)
       THEN /\ \E newFamilyId \in NewFamilyIds(familyStore) \cup {op.familyId} :
                 /\ (op.kind = "create") = (newFamilyId /= op.familyId)
                 /\ familyStore' =
                      [(IF op.kind = "create" THEN CreateWrites(familyStore, op, newFamilyId)
                        ELSE JoinWrites(familyStore, op))
                       EXCEPT !.ops[d] = NoOp]
            /\ familyScreen' = IF op.user = Subject THEN UserDocWritten(familyScreen)
                               ELSE familyScreen
            /\ lastEval' = FamilyEval(op.kind, Append(op.attempts, "committed"))
       ELSE /\ familyStore' = [familyStore EXCEPT !.ops[d].stage = "started",
                                                  !.ops[d].attempts = Append(@, "conflict")]
            /\ lastEval' = NoEval
            /\ UNCHANGED familyScreen
    /\ UNCHANGED <<userSettings, signupScreen, authCtx, now, moves, durable, srvInv, client,
                   geofenceEdit>>

InitFamily ==
    /\ now = StartMs
    /\ signupScreen = SignupIdle
    /\ authCtx = AuthMounted([u \in AuthUids |-> NoUserDoc])
    /\ editor = ClosedEditor(NoEditProfile)
    /\ geofenceCollection = InitCollection
    /\ userSettings = SettingsAt(DefaultSettings)
    /\ familyScreen = FamilyScreenIdle
    /\ familyStore = FamilyStoreIdle
    /\ moves = 0
    /\ familyOf = InitFamilyOf
    /\ fcmToken = {"B"}
    /\ liveLoc = NoLoc
    /\ liveBat = NoBat
    /\ sosActive = FALSE
    /\ log = {}
    /\ srvInv = [s \in Slots |-> IdleInv]
    /\ currentUserProfile = NoProfile
    /\ geofences = {}
    /\ effect3 = NoEffect
    /\ rtdbListeners = {}
    /\ liveSubs = [u \in Users |-> 0]
    /\ livePending = FALSE
    /\ batteryFetch = TRUE
    /\ previousUserLocation = NoLoc
    /\ lastLowBatteryAlertSent = NoTime
    /\ geofenceCooldowns = NoCooldowns
    /\ clientInFlight = NoFlight
    /\ lastEval = NoEval

NextFamily ==
    \/ ExploreMount
    \/ ExploreUnmount
    \/ ExploreProfileSnapshot
    \/ ExploreProfileError
    \/ \E ok \in BOOLEAN : toggleBatteryAlerts(ok)
    \/ \E d \in Devices, u \in FamilyUsers, inviteCode \in generateInviteCode(CodeLength) :
         u \in DeviceUsers(d) /\ handleCreateFamily(d, u, inviteCode)
    \/ \E d \in Devices, u \in FamilyUsers, familyCodeInput \in JoinInputs :
         u \in DeviceUsers(d) /\ handleJoinFamily(d, u, familyCodeInput)
    \/ \E d \in Devices : TransactionGet(d)
    \/ \E d \in Devices : TransactionCommit(d)

SpecFamily == InitFamily /\ [][NextFamily]_vars

\* C38: while the family screen is mounted and the most recent profile
\* snapshot carries a familyId F, the family-document listener and the
\* members listener for F are both subscribed.
C38_FamilyListenersLive ==
    LET F == familyScreen.currentUserProfile.familyId IN
    (familyScreen.mounted /\ ~familyScreen.currentUserProfile.null /\ F /= NoFamily)
        => /\ familyScreen.familyDocListener = [current |-> F, live |-> TRUE]
           /\ familyScreen.firestoreListener = [current |-> F, live |-> TRUE]


\* every user document and the members maps agree: u is in the members of
\* F exactly when its familyId is F, with role admin for the adminId of F
\* and role member otherwise
OneFamilyEach(store) ==
    \A u \in FamilyUsers :
        /\ \A f \in FamilyDocIds :
             (u \in store.families[f].members)
                 <=> (store.families[f].exists /\ store.users[u].familyId = f)
        /\ \A f \in FamilyDocIds :
             (store.families[f].exists /\ store.families[f].adminId = u)
                 <=> (store.users[u].familyId = f /\ store.users[u].role = "admin")
        /\ store.users[u].familyId /= NoFamily => store.users[u].role \in {"admin", "member"}
        /\ store.users[u].familyId = NoFamily => store.users[u].role = "none"

\* a step that leaves the users and families documents as they are
DocumentsKept == /\ familyStore'.users = familyStore.users
                 /\ familyStore'.families = familyStore.families

\* C39: a user is in at most one family and its familyId, its role and the
\* family's members entry are written together; once a user document has a
\* familyId, no create or join changes any document, and the handler that
\* finds it ends with "User is already in a family", also when another
\* create or join of the same user was committed in between.
C39_OneFamilyAtomic ==
    /\ [](OneFamilyEach(familyStore))
    /\ [][/\ \A u \in FamilyUsers :
               familyStore.users[u].familyId /= NoFamily
                   => familyStore'.users[u] = familyStore.users[u]
          /\ \A d \in Devices :
               (/\ familyStore.ops[d].stage = "started"
                /\ familyStore.users[familyStore.ops[d].user].familyId /= NoFamily
                /\ familyStore'.ops[d] /= familyStore.ops[d])
                   => /\ DocumentsKept
                      /\ lastEval'.result = "User is already in a family."
          /\ lastEval'.result = "User is already in a family." => DocumentsKept]_vars

\* a join that read the user document without a familyId, lost the commit to
\* a create of the same user on the other device, and was refused on its
\* second run
C39_Witness ==
    /\ lastEval.kind = "join"
    /\ lastEval.outcomes = <<"conflict", "User is already in a family.">>
    /\ familyStore.users[Subject].role = "admin"
    /\ \E f \in FamilyDocIds : familyStore.families[f].members = {Subject}

\* C40: no two family documents carry the same inviteCode, so the family
\* that handleJoinFamily finds for a code is the one created with it.
C40_CodesUnique ==
    \A f, g \in FamilyDocIds :
        (f /= g /\ familyStore.families[f].exists /\ familyStore.families[g].exists)
            => familyStore.families[f].inviteCode /= familyStore.families[g].inviteCode

====
